---- MODULE Spec2Model ----
(***************************************************************************)
(* Verification model of deputy-dispatch.                                  *)
(*                                                                         *)
(* Part 1: RevisionExpander (processors/RevisionExpander.ts) driven by     *)
(*         stagger (util/func/stagger.ts).                                 *)
(* Part 2: RevisionStore (util/RevisionStore.ts).                          *)
(*                                                                         *)
(* Each part has its own specification; the variables of the other part    *)
(* are left unchanged by it.                                               *)
(***************************************************************************)
EXTENDS Integers, Sequences, FiniteSets, TLC

(***************************************************************************)
(* Program constants and bounds                                            *)
(***************************************************************************)

\* RevisionExpander.PER_BATCH
PER_BATCH == 50

\* Number of queue() calls made on one expander.
MaxCalls == 3

\* ids 1..PER_BATCH+1 in ascending order: more than one batch in one call
BigList == [i \in 1..(PER_BATCH + 1) |-> i]

\* the largest id first, then 1..PER_BATCH: insertion order differs from
\* numeric order
LateFirst == <<PER_BATCH + 2>> \o [i \in 1..PER_BATCH |-> i]

\* The argument lists queue() is called with.
QueueInputs == {<<1>>, <<2>>, <<PER_BATCH + 2>>, BigList, LateFirst}

\* The revision ids that upstream reports in badrevids, one choice per run.
BadRevIdChoices == {{}, {1}}

Pending == "pending"

\* The revision ids the store is used with.
RevIds == {1, 2}

\* The tag lists carried by revisions and by tags-change events.
TagSets == {{"mw-reverted"}, {"mw-undo"}}

\* The fields a visibility-change event reports on (TRUE: visible).
Visibilities == [text : BOOLEAN, comment : BOOLEAN, user : BOOLEAN]

\* AsyncTask.TASK_EXPIRE_TIME, in milliseconds
TASK_EXPIRE_TIME == 3600000

\* maxAge of the request caches, in seconds
CACHE_MAX_AGE == 3600

\* Number of tasks made by runTask, over all controllers.
MaxTasks == 2

\* The task controller classes of the repository.
AllControllers == {"UserDeletedRevisions", "UserLargestEdits",
                   "UserSearchTalk", "TestAsyncTaskController"}

\* The controllers that run side by side in the model.
Controllers == {"UserDeletedRevisions", "UserLargestEdits"}

\* The fingerprints of the options of the POST requests.
CacheKeys == {"{user,wiki}"}

\* The arguments workers pass to updateProgress, in hundredths.
ProgressArgs == {-5, 50}

\* The steps of the clock, in milliseconds.
TickSteps == {TASK_EXPIRE_TIME}

\* The clock stops after the first tasks have expired.
Horizon == 2 * TASK_EXPIRE_TIME

(***************************************************************************)
(* State                                                                   *)
(***************************************************************************)
VARIABLES
    \* ---- RevisionExpander / stagger ----
    revisionQueue,   \* id -> handle: this.revisionQueue
    forProcessing,   \* id -> handle: the local map of the pass in flight
    requested,       \* the array handed to this.request by the pass
    running,         \* stagger: running
    willRecall,      \* stagger: willRecall
    timers,          \* number of setTimeout( wrapper, 0 ) not yet fired
    pc,              \* position of the pass: idle, request, resolved, failed
    handles,         \* handle -> [value, resolved (number of resolver calls),
                     \*            rejected (number of rejector calls)]
    calls,           \* number of queue() calls made
    badrevids,       \* upstream: the ids that do not exist
    queuedAt,        \* handle -> the time its key was inserted in
                     \* revisionQueue (history)
    clock,           \* insertion clock (history)
    reissued,        \* pairs <<earlier, later>> of handles of one id, the
                     \* later one made while the earlier was unresolved
    batchNo,         \* number of passes that drained the queue
    failedBatch,     \* the handles of the batch whose request failed
    \* ---- RevisionStore ----
    privileged,      \* constructor argument privileged
    stream,          \* this.stream: "none", or the status of the stream
    store,           \* the entries of the Map: revid -> revision
    visListeners,    \* listeners on mediawiki.revision-visibility-change
    tagListeners,    \* listeners on mediawiki.revision-tags-change
    lastOp,          \* the last operation or event, with its arguments
    hiddenBy,        \* revid -> fields an event reported hidden (flag false)
                     \* since the entry was last written by a caller
    shownBy,         \* revid -> fields an event reported with the flag set
                     \* since the entry was last written by a caller
    \* ---- Async task engine ----
    now,             \* Date.now()
    taskLists,       \* AsyncTaskController.taskLists: task list id ->
                     \* ( task id -> entry: an AsyncTask or an Error )
    taskObjects,     \* task id -> the fields of the AsyncTask object
    processState,    \* task id -> state of the promise of process():
                     \* pending or rejected (nothing waits for it to
                     \* resolve)
    requestCache,    \* controller -> ( cache key -> [id, setAt] )
    lastReq,         \* the last request or sweep, with its arguments
    taskHistory,     \* task id -> what happened to the task (history)
    \* ---- Processors and request handlers taken one call at a time ----
    input,           \* the arguments of the call, and what its queries and
                     \* lookups return
    output,          \* what the call returned, once it has
    \* ---- WikimediaSiteMatrix ----
    matrix,          \* the fields matrix, matrixDbNameIndex, matrixHostnameIndex
    lookups,         \* lookup -> [dbName, at, site]: the getDbName calls
    networkRequests, \* number of axios.get calls made for the site matrix
    \* ---- WikimediaSessionManager ----
    clientStore,     \* WikimediaSessionManager.clientStore: dbname -> client
    clientCalls,     \* call -> [wiki, at, site, client]: the getClient calls
    clientsCreated   \* number of mwn objects made by createClient

expanderVars == <<revisionQueue, forProcessing, requested, running, willRecall,
                  timers, pc, handles, calls, badrevids, queuedAt, clock,
                  reissued, batchNo, failedBatch>>

storeVars == <<privileged, stream, store, visListeners, tagListeners, lastOp,
               hiddenBy, shownBy>>

taskVars == <<now, taskLists, taskObjects, processState, requestCache,
              lastReq, taskHistory>>

callVars == <<input, output>>

siteVars == <<matrix, lookups, networkRequests>>

sessionVars == <<clientStore, clientCalls, clientsCreated>>

vars == <<expanderVars, storeVars, taskVars, callVars, siteVars, sessionVars>>

(***************************************************************************)
(* Helpers                                                                 *)
(***************************************************************************)
EmptyMap == [x \in {} |-> 0]

Min(S) == CHOOSE m \in S : \A x \in S : m <= x

Range(s) == {s[i] : i \in DOMAIN s}

Restrict(f, S) == [x \in S |-> f[x]]

\* fakePromise(): a promise with exposed resolver and rejector
fakePromise == [value |-> Pending, resolved |-> 0, rejected |-> 0]

\* The promise is neither resolved nor rejected.
IsPending(h) == h.resolved + h.rejected = 0

\* resolver( result ): the first settlement wins, later calls are counted
resolver(h, result) ==
    [h EXCEPT !.value = IF IsPending(h) THEN result ELSE @,
              !.resolved = @ + 1]

\* What the API answers for one id: a revision, or a badrevids entry.
UpstreamRevision(id) ==
    IF id \in badrevids
    THEN [revid |-> id, missing |-> TRUE]
    ELSE [revid |-> id, missing |-> FALSE]

\* for ( const revisionId in this.revisionQueue ): the own keys of an object
\* whose keys are integer indices are enumerated in ascending numeric order
RECURSIVE OwnKeys(_)
OwnKeys(S) ==
    IF S = {} THEN <<>> ELSE LET m == Min(S) IN <<m>> \o OwnKeys(S \ {m})

RECURSIVE DrainLoopOffByOne(_, _, _)
DrainLoopOffByOne(keys, i, taken) ==
    IF i > Len(keys) THEN taken
    ELSE IF Len(taken) > PER_BATCH THEN taken
    ELSE DrainLoopOffByOne(keys, i + 1, Append(taken, keys[i]))

\* the loop of run: move keys into forProcessing until it holds PER_BATCH
RECURSIVE DrainLoop(_, _, _)
DrainLoop(keys, i, taken) ==
    IF i > Len(keys) THEN taken
    ELSE IF Len(taken) >= PER_BATCH THEN taken
    ELSE DrainLoop(keys, i + 1, Append(taken, keys[i]))

(***************************************************************************)
(* stagger: the wrapper, called with the queue q the caller leaves behind. *)
(* When a pass is running it only sets willRecall; otherwise it starts a   *)
(* pass, which drains the queue and calls request up to its first await.   *)
(***************************************************************************)
wrapper(q) ==
    IF running
    THEN /\ willRecall' = TRUE
         /\ revisionQueue' = q
         /\ UNCHANGED <<forProcessing, requested, running, pc, batchNo>>
    ELSE LET ids == DrainLoop(OwnKeys(DOMAIN q), 1, <<>>) IN
         /\ running' = TRUE
         /\ forProcessing' = Restrict(q, Range(ids))
         /\ revisionQueue' = Restrict(q, DOMAIN q \ Range(ids))
         /\ requested' = ids
         /\ pc' = "request"
         /\ batchNo' = batchNo + 1
         /\ UNCHANGED willRecall

(***************************************************************************)
(* RevisionExpander.queue( revisions )                                     *)
(***************************************************************************)
queue(revisions) ==
    /\ calls < MaxCalls
    /\ calls' = calls + 1
    /\ LET c == calls + 1
           new == Range(revisions)
           q == [id \in DOMAIN revisionQueue \cup new |->
                    IF id \in new THEN <<c, id>> ELSE revisionQueue[id]]
           pos(id) == CHOOSE i \in DOMAIN revisions : revisions[i] = id
       IN /\ handles' = [h \in DOMAIN handles \cup {<<c, id>> : id \in new} |->
                            IF h \in DOMAIN handles THEN handles[h]
                            ELSE fakePromise]
          /\ queuedAt' = [h \in DOMAIN queuedAt \cup {<<c, id>> : id \in new} |->
                            IF h \in DOMAIN queuedAt THEN queuedAt[h]
                            ELSE IF h[2] \in DOMAIN revisionQueue
                                 THEN queuedAt[revisionQueue[h[2]]]
                                 ELSE clock + pos(h[2])]
          /\ clock' = clock + Len(revisions)
          /\ reissued' = reissued \cup
                 {<<h, <<c, h[2]>>>> : h \in {g \in DOMAIN handles :
                      g[2] \in new /\ IsPending(handles[g])}}
          /\ wrapper(q)
    /\ UNCHANGED <<timers, badrevids, failedBatch>>

(***************************************************************************)
(* The request of the pass in flight is answered: run resolves the handle  *)
(* of every id of the answer and deletes the id from revisionQueue.        *)
(***************************************************************************)
UpstreamAnswer ==
    /\ pc = "request"
    /\ LET ids == Range(requested) IN
       /\ handles' = [h \in DOMAIN handles |->
                        IF h[2] \in ids /\ forProcessing[h[2]] = h
                        THEN resolver(handles[h], UpstreamRevision(h[2]))
                        ELSE handles[h]]
       /\ revisionQueue' = Restrict(revisionQueue, DOMAIN revisionQueue \ ids)
    /\ forProcessing' = EmptyMap
    /\ pc' = "resolved"
    /\ UNCHANGED <<requested, running, willRecall, timers, calls, badrevids,
                   queuedAt, clock, reissued, batchNo, failedBatch>>

(***************************************************************************)
(* The request of the pass in flight fails: run throws at its await, and   *)
(* so do runner and wrapper; wrapper never reaches running = false.        *)
(***************************************************************************)
UpstreamError ==
    /\ pc = "request"
    /\ pc' = "failed"
    /\ failedBatch' = Range(forProcessing)
    /\ forProcessing' = EmptyMap
    /\ UNCHANGED <<revisionQueue, requested, running, willRecall, timers,
                   handles, calls, badrevids, queuedAt, clock, reissued,
                   batchNo>>

(***************************************************************************)
(* wrapper resumes after await runner(): clears running and schedules the  *)
(* next pass when asked to or when the condition holds.                    *)
(***************************************************************************)
WrapperResume ==
    /\ pc = "resolved"
    /\ running' = FALSE
    /\ pc' = "idle"
    /\ LET willRecallCondition == DOMAIN revisionQueue # {} IN
       IF willRecall \/ willRecallCondition
       THEN /\ willRecall' = FALSE
            /\ timers' = timers + 1
       ELSE UNCHANGED <<willRecall, timers>>
    /\ UNCHANGED <<revisionQueue, forProcessing, requested, handles, calls,
                   badrevids, queuedAt, clock, reissued, batchNo, failedBatch>>

(***************************************************************************)
(* A setTimeout( wrapper, 0 ) fires.                                       *)
(***************************************************************************)
TimerFire ==
    /\ timers > 0
    /\ timers' = timers - 1
    /\ wrapper(revisionQueue)
    /\ UNCHANGED <<handles, calls, badrevids, queuedAt, clock, reissued,
                   failedBatch>>

InitExpander ==
    /\ revisionQueue = EmptyMap
    /\ forProcessing = EmptyMap
    /\ requested = <<>>
    /\ running = FALSE
    /\ willRecall = FALSE
    /\ timers = 0
    /\ pc = "idle"
    /\ handles = EmptyMap
    /\ calls = 0
    /\ badrevids \in BadRevIdChoices
    /\ queuedAt = EmptyMap
    /\ clock = 0
    /\ reissued = {}
    /\ batchNo = 0
    /\ failedBatch = {}

(***************************************************************************)
(* RevisionStore                                                           *)
(***************************************************************************)

\* A complete revision as the expander delivers it.
ExpandedRevision(id, tags) ==
    [revid |-> id, missing |-> FALSE, comment |-> "summary", user |-> "Alice",
     tags |-> tags, visibility |-> <<>>]

MissingRevision(id) == [revid |-> id, missing |-> TRUE]

\* The values a caller passes to set for one id.
Revisions(id) == {ExpandedRevision(id, t) : t \in TagSets} \cup {MissingRevision(id)}

\* isValidRevision( revision ): the revision is not a missing marker
isValidRevision(rev) == ~rev.missing

Op(op, key, tags, threw) ==
    [op |-> op, key |-> key, tags |-> tags, threw |-> threw]

\* Map.prototype.set
MapSet(m, key, value) ==
    [k \in DOMAIN m \cup {key} |-> IF k = key THEN value ELSE m[k]]

setAlways(m, key, value) ==
    [entries |-> MapSet(m, key, value), threw |-> FALSE]

\* RevisionStore.set( key, value ): the entries after the call, and whether
\* the call threw
set(m, key, value) ==
    IF stream = "none" \/ stream # "Open"
    THEN [entries |-> m, threw |-> FALSE]
    ELSE [entries |-> MapSet(m, key, value), threw |-> FALSE]

\* RevisionStore.get( key ): << >> stands for undefined
get(m, key) == IF key \in DOMAIN m THEN <<m[key]>> ELSE <<>>

onVisibilityChangeInverted(m, data) ==
    LET oldRev == get(m, data.rev_id) IN
    IF oldRev # <<>> /\ isValidRevision(oldRev[1])
    THEN set(m, data.rev_id,
             [oldRev[1] EXCEPT
                 !.comment = IF data.visibility.comment THEN "" ELSE @,
                 !.user = IF data.visibility.user THEN "" ELSE @,
                 !.visibility = <<data.visibility>>]).entries
    ELSE m

\* the listener on mediawiki.revision-visibility-change
onVisibilityChange(m, data) ==
    LET oldRev == get(m, data.rev_id) IN
    IF oldRev # <<>> /\ isValidRevision(oldRev[1])
    THEN set(m, data.rev_id,
             [oldRev[1] EXCEPT
                 !.comment = IF data.visibility.comment THEN @ ELSE "",
                 !.user = IF data.visibility.user THEN @ ELSE "",
                 !.visibility = <<data.visibility>>]).entries
    ELSE m

onTagsChangeAppend(m, data) ==
    LET revision == get(m, data.rev_id) IN
    IF revision # <<>> /\ isValidRevision(revision[1])
    THEN [m EXCEPT ![data.rev_id].tags = @ \cup data.tags]
    ELSE m

\* the listener on mediawiki.revision-tags-change
onTagsChange(m, data) ==
    LET revision == get(m, data.rev_id) IN
    IF revision # <<>> /\ isValidRevision(revision[1])
    THEN [m EXCEPT ![data.rev_id].tags = data.tags]
    ELSE m

\* An event is handed to every listener registered for it, in turn.
RECURSIVE EmitVisibilityChange(_, _, _)
EmitVisibilityChange(n, m, data) ==
    IF n = 0 THEN m
    ELSE EmitVisibilityChange(n - 1, onVisibilityChange(m, data), data)

RECURSIVE EmitTagsChange(_, _, _)
EmitTagsChange(n, m, data) ==
    IF n = 0 THEN m
    ELSE EmitTagsChange(n - 1, onTagsChange(m, data), data)

\* startStream as it was before the status check: open() on every call, and
\* open() on a stream that is open reconnects it
startStreamAlwaysOpen ==
    /\ IF stream = "none"
       THEN /\ visListeners' = IF privileged THEN 0 ELSE visListeners + 1
            /\ tagListeners' = tagListeners + 1
       ELSE UNCHANGED <<visListeners, tagListeners>>
    /\ stream' = "Connecting"
    /\ UNCHANGED <<privileged, store, hiddenBy, shownBy>>

\* RevisionStore.startStream(): the effect on the store
startStream ==
    /\ IF stream = "none"
       THEN /\ visListeners' = IF privileged THEN 0 ELSE visListeners + 1
            /\ tagListeners' = tagListeners + 1
       ELSE UNCHANGED <<visListeners, tagListeners>>
    /\ stream' = IF stream \notin {"Open", "Connecting"}
                 THEN "Connecting" ELSE stream
    /\ UNCHANGED <<privileged, store, hiddenBy, shownBy>>

StartStream ==
    /\ startStream
    /\ lastOp' = Op("startStream", 0, {}, FALSE)

\* RevisionStore.stopStream(): this.stream.close(); a TypeError when there
\* is no stream
StopStream ==
    /\ stream' = IF stream = "none" THEN stream ELSE "Closed"
    /\ lastOp' = Op("stopStream", 0, {}, stream = "none")
    /\ UNCHANGED <<privileged, store, visListeners, tagListeners, hiddenBy,
                   shownBy>>

\* A caller (the revisions endpoint) stores a revision under its id.
Set(key, value) ==
    /\ store' = set(store, key, value).entries
    /\ lastOp' = Op("set", key, {}, set(store, key, value).threw)
    /\ LET written == get(store', key) = <<value>> IN
       /\ hiddenBy' = IF written THEN [hiddenBy EXCEPT ![key] = {}]
                      ELSE hiddenBy
       /\ shownBy' = IF written THEN [shownBy EXCEPT ![key] = {}]
                     ELSE shownBy
    /\ UNCHANGED <<privileged, stream, visListeners, tagListeners>>

\* The event source reaches readyState OPEN.
StreamOpened ==
    /\ stream = "Connecting"
    /\ stream' = "Open"
    /\ lastOp' = Op("open", 0, {}, FALSE)
    /\ UNCHANGED <<privileged, store, visListeners, tagListeners, hiddenBy,
                   shownBy>>

\* The connection drops; the event source reconnects by itself.
StreamDropped ==
    /\ stream = "Open"
    /\ stream' = "Connecting"
    /\ lastOp' = Op("error", 0, {}, FALSE)
    /\ UNCHANGED <<privileged, store, visListeners, tagListeners, hiddenBy,
                   shownBy>>

\* A mediawiki.revision-visibility-change event arrives on the open stream.
VisibilityChange(id, visibility) ==
    /\ stream = "Open"
    /\ visListeners > 0
    /\ LET data == [rev_id |-> id, visibility |-> visibility]
           tracked == id \in DOMAIN store /\ isValidRevision(store[id])
       IN /\ store' = EmitVisibilityChange(visListeners, store, data)
          /\ hiddenBy' = IF tracked
                         THEN [hiddenBy EXCEPT ![id] = @ \cup
                                 {f \in {"comment", "user"} : ~visibility[f]}]
                         ELSE hiddenBy
          /\ shownBy' = IF tracked
                        THEN [shownBy EXCEPT ![id] = @ \cup
                                 {f \in {"comment", "user"} : visibility[f]}]
                        ELSE shownBy
    /\ lastOp' = Op("visibility-change", id, {}, FALSE)
    /\ UNCHANGED <<privileged, stream, visListeners, tagListeners>>

\* The visibility of revision id is changed on the wiki while the stream is
\* not open: no event is handed to a listener.
VisibilityChangeUnheard(id, visibility) ==
    /\ stream # "Open"
    /\ lastOp' = [op |-> "visibility-change-unheard", key |-> id, tags |-> {},
                  threw |-> FALSE, visibility |-> visibility]
    /\ UNCHANGED <<privileged, stream, store, visListeners, tagListeners,
                   hiddenBy, shownBy>>

\* A mediawiki.revision-tags-change event arrives on the open stream.
TagsChange(id, tags) ==
    /\ stream = "Open"
    /\ tagListeners > 0
    /\ store' = EmitTagsChange(tagListeners, store,
                     [rev_id |-> id, tags |-> tags])
    /\ lastOp' = Op("tags-change", id, tags, FALSE)
    /\ UNCHANGED <<privileged, stream, visListeners, tagListeners, hiddenBy,
                   shownBy>>

\* new RevisionStore( privileged, autostart )
InitStore ==
    /\ privileged \in BOOLEAN
    /\ store = EmptyMap
    /\ hiddenBy = [id \in RevIds |-> {}]
    /\ shownBy = [id \in RevIds |-> {}]
    /\ \E autostart \in BOOLEAN :
          IF autostart
          THEN /\ stream = "Connecting"
               /\ visListeners = IF privileged THEN 0 ELSE 1
               /\ tagListeners = 1
               /\ lastOp = Op("startStream", 0, {}, FALSE)
          ELSE /\ stream = "none"
               /\ visListeners = 0
               /\ tagListeners = 0
               /\ lastOp = Op("new", 0, {}, FALSE)

SetCall == \E key \in RevIds : \E value \in Revisions(key) : Set(key, value)

VisibilityEvent ==
    \E id \in RevIds : \E visibility \in Visibilities :
        VisibilityChange(id, visibility)

VisibilityUnheard ==
    \E id \in RevIds : \E visibility \in Visibilities :
        VisibilityChangeUnheard(id, visibility)

TagsEvent == \E id \in RevIds : \E tags \in TagSets : TagsChange(id, tags)

NextStore ==
    \/ StartStream
    \/ StopStream
    \/ SetCall
    \/ StreamOpened
    \/ StreamDropped
    \/ VisibilityEvent
    \/ VisibilityUnheard
    \/ TagsEvent

QueueCall == \E revisions \in QueueInputs : queue(revisions)

NextExpander ==
    \/ QueueCall
    \/ UpstreamAnswer
    \/ UpstreamError
    \/ WrapperResume
    \/ TimerFire

(***************************************************************************)
(* Async task engine: AsyncTask, AsyncTaskController and the POST          *)
(* endpoints of the task controllers                                       *)
(***************************************************************************)

\* Progress is kept in hundredths: 100 is the progress 1 of the source.
One == 100

Undefined == <<>>

Null == <<"null">>

\* new AsyncTask(): created at time t
AsyncTask(t) ==
    [finished |-> FALSE, progress |-> 0,
     expireTime |-> t + TASK_EXPIRE_TIME, result |-> Undefined]

MathMax(a, b) == IF a > b THEN a ELSE b

MathMin(a, b) == IF a < b THEN a ELSE b

\* AsyncTask.updateProgress without the clamp.
updateProgressUnclamped(task, progress) ==
    [task EXCEPT !.progress = progress]

\* AsyncTask.updateProgress( progress )
updateProgress(task, progress) ==
    [task EXCEPT !.progress = MathMax(0, MathMin(One, progress))]

\* AsyncTask.finish that forgets to store the result.
finishWithoutResult(task, result) ==
    [task EXCEPT !.progress = One, !.finished = TRUE]

\* AsyncTask.finish( result )
finish(task, result) ==
    [task EXCEPT !.progress = One, !.result = <<result>>, !.finished = TRUE]

\* UserDeletedRevisions.getTaskListId()
UserDeletedRevisionsTaskListId == "user-deleted-revisions"

\* UserLargestEdits.getTaskListId() copied from UserDeletedRevisions.
UserLargestEditsTaskListIdCopied == "user-deleted-revisions"

\* UserLargestEdits.getTaskListId()
UserLargestEditsTaskListId == "user-largest-edits"

\* UserSearchTalk.getTaskListId()
UserSearchTalkTaskListId == "user-warnings"

\* TestAsyncTaskController.getTaskListId()
TestTaskListId == "test"

\* this.getTaskListId(), by the class of the controller
getTaskListId(c) ==
    CASE c = "UserDeletedRevisions" -> UserDeletedRevisionsTaskListId
      [] c = "UserLargestEdits" -> UserLargestEditsTaskListId
      [] c = "UserSearchTalk" -> UserSearchTalkTaskListId
      [] c = "TestAsyncTaskController" -> TestTaskListId

\* The task list ids in AsyncTaskController.taskLists.
TaskListIds == {getTaskListId(c) : c \in AllControllers}

\* get tasks(): the registry of controller c
tasks(c) == taskLists[getTaskListId(c)]

\* The registry entry of an AsyncTask: the object itself, held by reference.
TaskEntry == [error |-> FALSE, message |-> ""]

\* The registry entry of a captured Error.
ErrorEntry(message) == [error |-> TRUE, message |-> message]

\* The error trap of runTask left out: the rejection is not captured.
catchRejectionMissing(registry, id, e) == registry

\* runTask: .catch( e => this.tasks.set( task.id, e ) )
catchRejection(registry, id, e) == MapSet(registry, id, ErrorEntry(e))

isTaskExisting(c, id) == id \in DOMAIN tasks(c)

isTaskExpired(c, id) ==
    IF tasks(c)[id].error THEN TRUE ELSE now - taskObjects[id].expireTime > 0

getTaskProgress(c, id) ==
    IF tasks(c)[id].error THEN One ELSE taskObjects[id].progress

\* getTaskFinished reading task.finished of an Error entry (undefined).
getTaskFinishedNoError(c, id) ==
    IF tasks(c)[id].error THEN FALSE ELSE taskObjects[id].finished

getTaskFinished(c, id) ==
    IF tasks(c)[id].error THEN TRUE ELSE taskObjects[id].finished

getTaskResult(c, id) ==
    IF tasks(c)[id].error THEN Null ELSE taskObjects[id].result

\* A response of the progress endpoint; id 0 stands for a body without id.
ProgressResponse(status, code, id, progress, finished, location) ==
    [status |-> status, code |-> code, id |-> id, progress |-> progress,
     finished |-> finished, location |-> location]

\* handleProgressRequest( req, id ); status is the status set before the call
handleProgressRequest(c, id, status) ==
    IF ~isTaskExisting(c, id)
    THEN ProgressResponse(404, "task-missing", 0, 0, FALSE, "")
    ELSE ProgressResponse(status, "", id, getTaskProgress(c, id),
                          getTaskFinished(c, id),
                          IF getTaskFinished(c, id) THEN ".." ELSE "")

ResultResponse(status, code, body) ==
    [status |-> status, code |-> code, body |-> body]

\* handleResultRequest without the branch for captured errors: the
\* finished field of an Error is undefined.
handleResultRequestNoError(c, id) ==
    IF ~isTaskExisting(c, id)
    THEN ResultResponse(404, "task-missing", Undefined)
    ELSE IF tasks(c)[id].error \/ ~taskObjects[id].finished
         THEN ResultResponse(409, "task-unfinished", Undefined)
         ELSE ResultResponse(200, "", getTaskResult(c, id))

\* handleResultRequest( req, id )
handleResultRequest(c, id) ==
    IF ~isTaskExisting(c, id)
    THEN ResultResponse(404, "task-missing", Undefined)
    ELSE IF tasks(c)[id].error
         THEN ResultResponse(500, "task-uncaught-generic", Undefined)
         ELSE IF ~taskObjects[id].finished
              THEN ResultResponse(409, "task-unfinished", Undefined)
              ELSE ResultResponse(200, "", getTaskResult(c, id))

\* sweepTasks that tests the expiry time only.
sweepTasksExpiredOnly(c) ==
    Restrict(tasks(c),
             {id \in DOMAIN tasks(c) :
                 ~(~tasks(c)[id].error
                   /\ now - taskObjects[id].expireTime > 0)})

\* sweepTasks(): the registry of c after the sweep
sweepTasks(c) ==
    Restrict(tasks(c),
             {id \in DOMAIN tasks(c) :
                 ~(tasks(c)[id].error
                   \/ now - taskObjects[id].expireTime > 0)})

\* sweepTask( id, checks ): the registry of c after the call
sweepTask(c, id, checks) ==
    IF isTaskExisting(c, id) /\ (~checks \/ isTaskExpired(c, id))
    THEN Restrict(tasks(c), DOMAIN tasks(c) \ {id})
    ELSE tasks(c)

\* requestCache.has( key ) of stale-lru-cache
cacheHas(c, key) == key \in DOMAIN requestCache[c]

\* requestCache.isStale( key ): older than maxAge seconds
cacheIsStale(c, key) ==
    now - requestCache[c][key].setAt > CACHE_MAX_AGE * 1000

\* The cache test of the POST handlers with the staleness test inverted.
cacheHitStale(c, key, bypassCache) ==
    cacheHas(c, key) /\ cacheIsStale(c, key) /\ ~bypassCache

\* has( cacheKey ) && !isStale( cacheKey ) && !bypassCache
cacheHit(c, key, bypassCache) ==
    cacheHas(c, key) /\ ~cacheIsStale(c, key) /\ ~bypassCache

\* The last request made of controller c, or the last call of a worker.
Req(op, c, key, bypassCache, id) ==
    [op |-> op, ctl |-> c, key |-> key, bypassCache |-> bypassCache,
     id |-> id]

\* Any step that is no request: a clock tick, a worker finishing or failing.
NoReq == Req("none", "", "", FALSE, 0)

\* What is remembered of each task made (history).
\* ctl: the controller whose runTask made it; finishArgs: the argument of
\* its last finish call; peak: the highest progress it has had.
NewHistory(c) == [ctl |-> c, finishArgs |-> <<>>, peak |-> 0]

\* The ids of the tasks made so far: crypto.randomUUID() never repeats.
TaskIds == DOMAIN taskObjects

NewTaskId == Cardinality(TaskIds) + 1

\* runTask( options ): a new task with a new id, in the registry of c, and
\* process( options, task ) started.
runTask(c, id) ==
    /\ taskObjects' = MapSet(taskObjects, id, AsyncTask(now))
    /\ taskLists' = [taskLists EXCEPT ![getTaskListId(c)] =
                        MapSet(@, id, TaskEntry)]
    /\ processState' = MapSet(processState, id, "pending")
    /\ taskHistory' = MapSet(taskHistory, id, NewHistory(c))

\* POST of a task controller.  The handler first suspends on
\* await WikimediaSiteMatrix.i.getDbName( wiki ), having touched no state;
\* this is the rest of it, which runs to its end without suspending: an
\* unsupported wiki, a request answered from the cache, or a new task.
\* Requests in flight at one time resume in any order.
Post(c, key, bypassCache, site) ==
    /\ IF ~site
       THEN /\ lastReq' = Req("post-unsupported", c, key, bypassCache, 0)
            /\ UNCHANGED <<taskLists, taskObjects, processState,
                           requestCache, taskHistory>>
       ELSE IF cacheHit(c, key, bypassCache)
       THEN /\ lastReq' = Req("post-cached", c, key, bypassCache,
                            requestCache[c][key].id)
            /\ UNCHANGED <<taskLists, taskObjects, processState,
                           requestCache, taskHistory>>
       ELSE /\ NewTaskId <= MaxTasks
            /\ runTask(c, NewTaskId)
            /\ requestCache' = [requestCache EXCEPT ![c] =
                                   MapSet(@, key, [id |-> NewTaskId,
                                                   setAt |-> now])]
            /\ lastReq' = Req("post-run", c, key, bypassCache, NewTaskId)
    /\ UNCHANGED now

\* The worker calls task.updateProgress( progress ).
UpdateProgress(id, progress) ==
    /\ processState[id] = "pending"
    /\ ~taskObjects[id].finished
    /\ taskObjects' = [taskObjects EXCEPT
                          ![id] = updateProgress(@, progress)]
    /\ taskHistory' = [taskHistory EXCEPT
                          ![id].peak = MathMax(@, taskObjects'[id].progress)]
    /\ lastReq' = Req("updateProgress", "", "", FALSE, id)
    /\ UNCHANGED <<now, taskLists, processState, requestCache>>

\* The worker calls task.finish( result ).
Finish(id, result) ==
    /\ processState[id] = "pending"
    /\ taskObjects' = [taskObjects EXCEPT ![id] = finish(@, result)]
    /\ taskHistory' = [taskHistory EXCEPT
                          ![id].finishArgs = <<result>>,
                          ![id].peak = MathMax(@, taskObjects'[id].progress)]
    /\ lastReq' = NoReq
    /\ UNCHANGED <<now, taskLists, processState, requestCache>>

\* The promise of process( options, task ) rejects and the error trap of
\* runTask stores the error under the id of the task.
ProcessRejects(id) ==
    /\ processState[id] = "pending"
    /\ processState' = [processState EXCEPT ![id] = "rejected"]
    /\ LET t == getTaskListId(taskHistory[id].ctl)
       IN taskLists' = [taskLists EXCEPT ![t] =
                           catchRejection(@, id, "failure")]
    /\ lastReq' = NoReq
    /\ UNCHANGED <<now, taskObjects, requestCache, taskHistory>>

\* GET {id}/progress
ProgressRequest(c, id) ==
    /\ lastReq' = Req("progress", c, "", FALSE, id)
    /\ UNCHANGED <<now, taskLists, taskObjects, processState, requestCache,
                   taskHistory>>

\* GET {id}
ResultRequest(c, id) ==
    /\ lastReq' = Req("result", c, "", FALSE, id)
    /\ UNCHANGED <<now, taskLists, taskObjects, processState, requestCache,
                   taskHistory>>

\* A caller runs sweepTasks() on controller c.
SweepTasks(c) ==
    /\ taskLists' = [taskLists EXCEPT ![getTaskListId(c)] = sweepTasks(c)]
    /\ lastReq' = Req("sweepTasks", c, "", FALSE, 0)
    /\ UNCHANGED <<now, taskObjects, processState, requestCache,
                   taskHistory>>

\* A caller runs sweepTask( id, checks ) on controller c.
SweepTask(c, id, checks) ==
    /\ taskLists' = [taskLists EXCEPT ![getTaskListId(c)] =
                        sweepTask(c, id, checks)]
    /\ lastReq' = Req("sweepTask", c, "", FALSE, id)
    /\ UNCHANGED <<now, taskObjects, processState, requestCache,
                   taskHistory>>

\* Time passes: Date.now() grows by d milliseconds.
Tick(d) ==
    /\ now + d <= Horizon
    /\ now' = now + d
    /\ lastReq' = NoReq
    /\ UNCHANGED <<taskLists, taskObjects, processState, requestCache,
                   taskHistory>>

\* The controller classes with a static requestCache.
CachingControllers == Controllers \cup {"UserSearchTalk"}

\* The server after start-up: no task list, no task, empty request caches.
InitTasks ==
    /\ now = 0
    /\ taskLists = [t \in TaskListIds |-> EmptyMap]
    /\ taskObjects = EmptyMap
    /\ processState = EmptyMap
    /\ requestCache = [c \in CachingControllers |-> EmptyMap]
    /\ taskHistory = EmptyMap
    /\ lastReq = NoReq

PostCall(C) ==
    \E c \in C : \E key \in CacheKeys :
        \E bypassCache \in BOOLEAN : \E site \in BOOLEAN :
            Post(c, key, bypassCache, site)

WorkerUpdate ==
    \E id \in TaskIds : \E progress \in ProgressArgs :
        UpdateProgress(id, progress)

WorkerFinish == \E id \in TaskIds : Finish(id, "result")

WorkerRejects == \E id \in TaskIds : ProcessRejects(id)

ProgressPoll(C) ==
    \E c \in C : \E id \in 1..MaxTasks : ProgressRequest(c, id)

ResultPoll(C) ==
    \E c \in C : \E id \in 1..MaxTasks : ResultRequest(c, id)

SweepAll(C) == \E c \in C : SweepTasks(c)

SweepOne(C) ==
    \E c \in C : \E id \in 1..MaxTasks : \E checks \in BOOLEAN :
        SweepTask(c, id, checks)

TimePasses == \E d \in TickSteps : Tick(d)

\* What the running server does with the controllers C: requests, workers
\* and the clock.  No route, timer or worker of the repository calls
\* sweepTasks or sweepTask.
NextServer(C) ==
    \/ PostCall(C)
    \/ WorkerUpdate
    \/ WorkerFinish
    \/ WorkerRejects
    \/ ProgressPoll(C)
    \/ ResultPoll(C)
    \/ TimePasses

\* The controllers C as their callers may use them: the server's steps and
\* the two sweep methods.
NextTasks(C) ==
    \/ PostCall(C)
    \/ WorkerUpdate
    \/ WorkerFinish
    \/ WorkerRejects
    \/ ProgressPoll(C)
    \/ ResultPoll(C)
    \/ TimePasses
    \/ SweepAll(C)
    \/ SweepOne(C)

(***************************************************************************)
(* WikimediaSiteMatrix                                                     *)
(***************************************************************************)

\* The most getDbName calls followed.
MaxLookups == 3

\* A site of the matrix; nonglobal: the key nonglobal exists.
SiteMatrixSite(dbname, hostname, nonglobal) ==
    [dbname |-> dbname, url |-> [protocol |-> "https:", hostname |-> hostname],
     nonglobal |-> nonglobal, isArray |-> FALSE]

\* The sitematrix of the answer: the sites of the language groups (the
\* numeric keys) and the specials.
SiteMatrix ==
    [groups |-> << <<SiteMatrixSite("enwiki", "en.wikipedia.org", FALSE),
                     SiteMatrixSite("enwikibooks", "en.wikibooks.org", FALSE)>> >>,
     specials |-> <<SiteMatrixSite("commonswiki", "commons.wikimedia.org", FALSE),
                    SiteMatrixSite("privatewiki", "private.wikimedia.org", TRUE)>>]

\* The database names of the requests: in a language group, special,
\* special and not global, not in the matrix.
DbNames == {"enwiki", "commonswiki", "privatewiki", "nowiki"}

\* What the request for the matrix comes to: a body with the key
\* sitematrix, a body without it (the error body of the API, or a body that
\* is not JSON), a rejection by axios (the network, the status).
FetchOutcomes == {"sitematrix", "nositematrix", "rejected"}

\* Object.assign( matrix[ i ].site, { lang: matrix[ i ] } ): the target of
\* the assignment, which is the array of the sites of the group: it has no
\* key dbname, no key url and no key nonglobal.
appliedSite(sites) ==
    [dbname |-> "", url |-> Undefined, nonglobal |-> FALSE, isArray |-> TRUE]

\* new URL( url ).hostname
hostnameOf(url) == url.hostname

\* The sites of the language groups of a matrix, and the group of each.
groupSites(m) == UNION {Range(group) : group \in Range(m.groups)}

groupOf(m, site) == CHOOSE group \in Range(m.groups) : site \in Range(group)

\* The key of a site in the index of the name: site.dbname in
\* matrixDbNameIndex, new URL( site.url ).hostname in matrixHostnameIndex.
keyOf(site, index) ==
    IF index = "matrixDbNameIndex" THEN site.dbname ELSE hostnameOf(site.url)

\* The two loops of fetch over a matrix m, for one index: the sites of the
\* language groups, each as appliedSite, and the specials.
indexBy(m, index) ==
    LET keys == {keyOf(site, index) :
                    site \in groupSites(m) \cup Range(m.specials)}
    IN [k \in keys |->
           IF \E special \in Range(m.specials) : keyOf(special, index) = k
           THEN CHOOSE special \in Range(m.specials) : keyOf(special, index) = k
           ELSE appliedSite(groupOf(m, CHOOSE site \in groupSites(m) :
                                           keyOf(site, index) = k))]

\* this.matrixDbNameIndex after fetch.
matrixDbNameIndex == indexBy(SiteMatrix, "matrixDbNameIndex")

\* this.matrixHostnameIndex after fetch.
matrixHostnameIndex == indexBy(SiteMatrix, "matrixHostnameIndex")

\* index[ key ]: <<site>>, or <<>> for undefined.
indexed(index, key) == IF key \in DOMAIN index THEN <<index[key]>> ELSE Undefined

\* this.matrixDbNameIndex[ dbName ] once the matrix is fetched.
getDbName(dbName) == indexed(matrixDbNameIndex, dbName)

\* The fields of the singleton: the matrix and the two indices, each
\* <<value>> or <<>> for undefined.
Fields(m, dbNameIndex, hostnameIndex) ==
    [matrix |-> m, matrixDbNameIndex |-> dbNameIndex,
     matrixHostnameIndex |-> hostnameIndex]

\* fetch after the await of axios.get: a rejection leaves the method at
\* the await; otherwise this.matrix is assigned r.data.sitematrix, both
\* indices are assigned {}, and the loops fill them: Object.keys( undefined )
\* throws when the body had no sitematrix.
fetch(fields, outcome) ==
    CASE outcome = "rejected" -> [fields |-> fields, threw |-> TRUE]
      [] outcome = "nositematrix" ->
             [fields |-> Fields(Undefined, <<EmptyMap>>, <<EmptyMap>>),
              threw |-> TRUE]
      [] OTHER ->
             [fields |-> Fields(<<SiteMatrix>>, <<matrixDbNameIndex>>,
                                <<matrixHostnameIndex>>),
              threw |-> FALSE]

\* The next getDbName call.
NewLookup == Cardinality(DOMAIN lookups) + 1

\* getDbName( dbName ) is called: await this.get().  With this.matrix set
\* the call goes on to the index; without, get calls fetch, which asks
\* meta.wikimedia.org for the matrix and waits for the answer.
GetDbName(dbName) ==
    /\ NewLookup <= MaxLookups
    /\ IF matrix.matrix # Undefined
       THEN /\ lookups' = MapSet(lookups, NewLookup,
                            [dbName |-> dbName, at |-> "done",
                             site |-> indexed(matrix.matrixDbNameIndex[1],
                                              dbName)])
            /\ UNCHANGED networkRequests
       ELSE /\ lookups' = MapSet(lookups, NewLookup,
                            [dbName |-> dbName, at |-> "fetch",
                             site |-> Undefined])
            /\ networkRequests' = networkRequests + 1
    /\ UNCHANGED matrix

\* The answer to the request of lookup l arrives: fetch assigns this.matrix
\* and the indices; when it returns, get returns and getDbName reads the
\* index; when it throws, getDbName rejects.
FetchAnswers(l, outcome) ==
    /\ lookups[l].at = "fetch"
    /\ LET fetched == fetch(matrix, outcome)
       IN /\ matrix' = fetched.fields
          /\ lookups' =
                 IF fetched.threw
                 THEN [lookups EXCEPT ![l].at = "failed"]
                 ELSE [lookups EXCEPT
                          ![l].at = "done",
                          ![l].site = indexed(
                              fetched.fields.matrixDbNameIndex[1],
                              lookups[l].dbName)]
    /\ UNCHANGED networkRequests

\* The singleton as constructed: no field assigned, no call made.
NoLookup ==
    /\ matrix = Fields(Undefined, Undefined, Undefined)
    /\ lookups = EmptyMap
    /\ networkRequests = 0

LookupCall == \E dbName \in DbNames : GetDbName(dbName)

FetchAnswer ==
    \E l \in DOMAIN lookups : \E outcome \in FetchOutcomes :
        FetchAnswers(l, outcome)

NextSiteMatrix == LookupCall \/ FetchAnswer

(***************************************************************************)
(* WikimediaSessionManager                                                 *)
(***************************************************************************)

\* The most getClient calls followed.
MaxClientCalls == 3

\* The next getClient call, and the next mwn object.
NewClientCall == Cardinality(DOMAIN clientCalls) + 1

NewClient == clientsCreated + 1

\* A getClient call: its argument, where it is, the site it resolved the
\* name to, the client it made and the client it returned.
ClientCall(wiki, at, site, client) ==
    [wiki |-> wiki, at |-> at, site |-> site, client |-> client]

\* getClient( wiki ) is called with a database name: it awaits
\* WikimediaSiteMatrix.i.getDbName( wiki ).
GetClient(wiki) ==
    /\ NewClientCall <= MaxClientCalls
    /\ clientCalls' = MapSet(clientCalls, NewClientCall,
                             ClientCall(wiki, "getDbName", Undefined, 0))
    /\ UNCHANGED <<clientStore, clientsCreated>>

\* new URL( '/w/api.php', wiki.url ) of createClient throws: the site has
\* no url.
createClientThrows(site) == site.url = Undefined

\* The test of getClient for a stored instance.
hasClient(clients, site) == site.dbname \in DOMAIN clients

\* getDbName returns to call k: the name is of no site and getClient
\* throws; or a client is stored under wiki.dbname and is returned; or
\* createClient is called, which throws on the URL or awaits mwn.init for a
\* new client.
DbNameReturns(k) ==
    /\ clientCalls[k].at = "getDbName"
    /\ LET found == getDbName(clientCalls[k].wiki)
       IN IF found = Undefined
          THEN /\ clientCalls' = [clientCalls EXCEPT ![k].at = "failed"]
               /\ UNCHANGED clientsCreated
          ELSE LET site == found[1]
               IN IF hasClient(clientStore, site)
                  THEN /\ clientCalls' =
                              [clientCalls EXCEPT
                                  ![k].at = "returned", ![k].site = found,
                                  ![k].client = clientStore[site.dbname]]
                       /\ UNCHANGED clientsCreated
                  ELSE IF createClientThrows(site)
                  THEN /\ clientCalls' =
                              [clientCalls EXCEPT ![k].at = "failed",
                                                  ![k].site = found]
                       /\ UNCHANGED clientsCreated
                  ELSE /\ clientCalls' =
                              [clientCalls EXCEPT ![k].at = "init",
                                                  ![k].site = found,
                                                  ![k].client = NewClient]
                       /\ clientsCreated' = NewClient
    /\ UNCHANGED clientStore

\* mwn.init resolves for call k: the client is stored under wiki.dbname
\* and returned.
InitResolves(k) ==
    /\ clientCalls[k].at = "init"
    /\ clientStore' = MapSet(clientStore, clientCalls[k].site[1].dbname,
                             clientCalls[k].client)
    /\ clientCalls' = [clientCalls EXCEPT ![k].at = "returned"]
    /\ UNCHANGED clientsCreated

\* mwn.init rejects for call k (the login is refused): getClient rejects.
InitRejects(k) ==
    /\ clientCalls[k].at = "init"
    /\ clientCalls' = [clientCalls EXCEPT ![k].at = "failed"]
    /\ UNCHANGED <<clientStore, clientsCreated>>

\* The class as loaded: clientStore = new Map(), no call made.
NoClient ==
    /\ clientStore = EmptyMap
    /\ clientCalls = EmptyMap
    /\ clientsCreated = 0

ClientCallMade == \E wiki \in DbNames : GetClient(wiki)

ClientCallStep ==
    \E k \in DOMAIN clientCalls :
        DbNameReturns(k) \/ InitResolves(k) \/ InitRejects(k)

NextSessionManager == ClientCallMade \/ ClientCallStep

\* No processor or handler call is followed.
NoCall == input = <<>> /\ output = <<>>

\* The expander on its own: the store and the task engine are constructed
\* and left alone.
InitE ==
    /\ InitExpander /\ InitStore /\ ~privileged /\ stream = "none"
    /\ InitTasks /\ NoCall /\ NoLookup /\ NoClient

NextE == NextExpander /\ UNCHANGED <<storeVars, taskVars, callVars, siteVars, sessionVars>>

SpecExpander == InitE /\ [][NextE]_vars

\* The store on its own: the expander and the task engine are constructed
\* and left alone.
InitS ==
    /\ InitStore /\ InitExpander /\ badrevids = {} /\ InitTasks /\ NoCall
    /\ NoLookup /\ NoClient

NextS == NextStore /\ UNCHANGED <<expanderVars, taskVars, callVars, siteVars, sessionVars>>

SpecStore == InitS /\ [][NextS]_vars

\* The task engine on its own.
InitT ==
    /\ InitTasks
    /\ InitExpander /\ badrevids = {}
    /\ InitStore /\ ~privileged /\ stream = "none"
    /\ NoCall /\ NoLookup /\ NoClient

NextT ==
    NextTasks({"UserDeletedRevisions"})
        /\ UNCHANGED <<expanderVars, storeVars, callVars, siteVars, sessionVars>>

\* One task controller, with sweepTasks and sweepTask called at any time.
SpecTasks == InitT /\ [][NextT]_vars

NextV ==
    NextServer({"UserDeletedRevisions"})
        /\ UNCHANGED <<expanderVars, storeVars, callVars, siteVars, sessionVars>>

\* One task controller as the server runs it.
SpecServer == InitT /\ [][NextV]_vars

NextC ==
    NextTasks(Controllers) /\ UNCHANGED <<expanderVars, storeVars, callVars, siteVars, sessionVars>>

\* Two task controllers side by side, with the sweeps.
SpecControllers == InitT /\ [][NextC]_vars

\* The server never stops taking requests.
SpecServerFair == SpecServer /\ WF_vars(NextV)

\* The site matrix on its own: lookups and the answers to their requests.
InitM ==
    /\ NoLookup /\ NoClient /\ NoCall
    /\ InitTasks
    /\ InitExpander /\ badrevids = {}
    /\ InitStore /\ ~privileged /\ stream = "none"

NextM ==
    NextSiteMatrix
        /\ UNCHANGED <<expanderVars, storeVars, taskVars, callVars,
                       sessionVars>>

SpecSiteMatrix == InitM /\ [][NextM]_vars

\* The session manager on its own, the site matrix being held: getClient
\* calls and what they await.
NextW ==
    NextSessionManager
        /\ UNCHANGED <<expanderVars, storeVars, taskVars, callVars, siteVars>>

SpecSessionManager == InitM /\ [][NextW]_vars

(***************************************************************************)
(* UserDeletedRevisionFetcher.upgradeDeletedRevisions                      *)
(***************************************************************************)

\* The greatest log_timestamp of the deletion log rows.
MaxLogTime == 3

\* Log ids are given out in no relation to the timestamps of the rows.
LogIdAt(timestamp) == 100 - timestamp

\* The revisions of the call: RevIds and a revision of a greater id.
DeletedRevIds == RevIds \cup {4}

\* params.ids of a row: revisions of the call only, or a run of four ids
\* with others among them.
LoggedIds == (SUBSET RevIds \ {{}}) \cup {1..4, 2..5}

\* A row of logging_userindex with log_type delete and log_action
\* revision: params.ids are the revisions the row names.
DeletionLogRow(t, ids) == [logid |-> LogIdAt(t), timestamp |-> t, ids |-> ids]

\* The sets of rows in which no two rows have one timestamp.
DeletionLogs ==
    UNION {{{DeletionLogRow(t, ids[t]) : t \in times} :
               ids \in [times -> LoggedIds]} :
           times \in SUBSET (1..MaxLogTime)}

RECURSIVE OrderByTimestampDesc(_)
\* The rows newest first.
OrderByTimestampDesc(rows) ==
    IF rows = {} THEN <<>>
    ELSE LET first == CHOOSE r \in rows :
                         \A o \in rows : r.timestamp >= o.timestamp
         IN <<first>> \o OrderByTimestampDesc(rows \ {first})

RECURSIVE OrderByTimestamp(_)
\* .orderBy( 'log_timestamp', 'asc' )
OrderByTimestamp(rows) ==
    IF rows = {} THEN <<>>
    ELSE LET first == CHOOSE r \in rows :
                         \A o \in rows : r.timestamp <= o.timestamp
         IN <<first>> \o OrderByTimestamp(rows \ {first})

\* The four least ids.
firstFour(ids) == {id \in ids : Cardinality({j \in ids : j < id}) < 4}

\* entry.params.ids.sort(); entry.params.ids.slice( 0, 3 )
firstFew(ids) == {id \in ids : Cardinality({j \in ids : j < id}) < 3}

RECURSIVE entryIndex(_, _)
\* The loop over foundLogEntries: entryIndex[ id ] = entry for every id of
\* every entry, in the order of the entries; index is the index so far.
entryIndex(foundLogEntries, index) ==
    IF foundLogEntries = <<>> THEN index
    ELSE LET entry == Head(foundLogEntries)
         IN entryIndex(Tail(foundLogEntries),
                [id \in DOMAIN index \cup entry.ids |->
                    IF id \in entry.ids THEN entry ELSE index[id]])

\* upgradeDeletedRevisions: revid -> the attributes added to the revision;
\* deleted is <<entry>>, or <<>> for true.
upgradeDeletedRevisions(revisions, rows) ==
    LET index == entryIndex(OrderByTimestamp(rows), EmptyMap)
    IN [revid \in revisions |->
           IF revid \in DOMAIN index
           THEN [texthidden |-> TRUE, deleted |-> <<index[revid]>>,
                 islikelycause |-> revid \in firstFew(index[revid].ids)]
           ELSE [texthidden |-> TRUE, deleted |-> <<>>,
                 islikelycause |-> FALSE]]

\* A call of upgradeDeletedRevisions with the revisions DeletedRevIds, the
\* log holding the rows of the input.
InitDeletedRevisions ==
    /\ input \in {[fn |-> "upgradeDeletedRevisions", revisions |-> DeletedRevIds,
                   rows |-> rows] : rows \in DeletionLogs}
    /\ output = <<>>

UpgradeDeletedRevisions ==
    /\ input.fn = "upgradeDeletedRevisions"
    /\ output = <<>>
    /\ output' = <<upgradeDeletedRevisions(input.revisions, input.rows)>>
    /\ UNCHANGED input

\* The other components as constructed, left alone during a call.
InitComponents ==
    /\ InitTasks /\ NoLookup /\ NoClient
    /\ InitExpander /\ badrevids = {}
    /\ InitStore /\ ~privileged /\ stream = "none"

InitD == InitComponents /\ InitDeletedRevisions

NextD ==
    UpgradeDeletedRevisions /\ UNCHANGED <<expanderVars, storeVars, taskVars, siteVars, sessionVars>>

\* One call of upgradeDeletedRevisions.
SpecDeletedRevisions == InitD /\ [][NextD]_vars

(***************************************************************************)
(* UserDeletedPageFetcher.fetch                                            *)
(***************************************************************************)

\* The pages a deletion log row can be about (log_page).
LogPages == {1, 2}

\* The archive rows of the page creations of the user: ar_id -> row.
ArchiveRows ==
    [ar_id \in {1, 2} |->
        [ar_id |-> ar_id, ar_page_id |-> ar_id, ar_timestamp |-> 0]]

\* The archive row of page 1.
ArchiveRow == ArchiveRows[1]

\* The rows the join of withArchiveDeletion makes of an archive row: one
\* for each deletion log row of the same title and namespace with
\* log_timestamp > ar_timestamp.  log_id 0 is the NULL of a row no log row
\* joins.
JoinedRow(archive, log_timestamp, log_page) ==
    [ar_id |-> archive.ar_id, ar_page_id |-> archive.ar_page_id,
     ar_timestamp |-> archive.ar_timestamp,
     log_id |-> LogIdAt(log_timestamp), log_page |-> log_page,
     log_timestamp |-> log_timestamp]

UnjoinedRow(archive) ==
    [ar_id |-> archive.ar_id, ar_page_id |-> archive.ar_page_id,
     ar_timestamp |-> archive.ar_timestamp,
     log_id |-> 0, log_page |-> 0, log_timestamp |-> 0]

\* Every row of an answer.
ResultRows ==
    {UnjoinedRow(archive) : archive \in Range(ArchiveRows)} \cup
    {JoinedRow(archive, t, p) :
        archive \in Range(ArchiveRows), t \in 1..MaxLogTime, p \in LogPages}

\* withArchiveDeletion: the results of the query, in any order (the query
\* has no ORDER BY); an archive row no log row joins has a single row, the
\* log rows joined to one archive row have different timestamps.
withArchiveDeletion ==
    {results \in UNION {[1..n -> ResultRows] : n \in 1..MaxLogTime} :
        \A i \in DOMAIN results : \A j \in DOMAIN results :
            (i # j /\ results[i].ar_id = results[j].ar_id) =>
                /\ results[i].log_id # 0
                /\ results[j].log_id # 0
                /\ results[i].log_timestamp # results[j].log_timestamp}

\* const logMatches = row.log_id && ( row.ar_page_id === row.log_page )
logMatches(row) == row.log_id # 0 /\ row.ar_page_id = row.log_page

\* getLogData( guessed ): <<>> is true.
getLogData(row, guessed) ==
    IF row.log_id # 0
    THEN <<[logid |-> row.log_id, timestamp |-> row.log_timestamp,
            guessed |-> guessed]>>
    ELSE <<>>

\* The branch of a row whose ar_id the map has: the deletion the entry gets.
betterCandidate(existingDeleted, row) ==
    IF existingDeleted = <<>> /\ logMatches(row)
    THEN getLogData(row, FALSE)
    ELSE IF existingDeleted # <<>> /\ existingDeleted[1].timestamp > row.log_timestamp
    THEN getLogData(row, TRUE)
    ELSE IF row.log_id # 0
    THEN getLogData(row, TRUE)
    ELSE existingDeleted

\* new Map<number, DeletedPage>(): the keys in the order of their
\* insertion, and the values.
NewResultsMap == [keys |-> <<>>, val |-> EmptyMap]

\* resultsMap.set( row.ar_id, { pageid, ..., created, ..., deleted } )
DeletedPage(row) ==
    [pageid |-> row.ar_page_id, created |-> row.ar_timestamp,
     deleted |-> getLogData(row, ~logMatches(row))]

RECURSIVE resultsMapByLogId(_, _)
\* The loop with the map keyed by the log row.
resultsMapByLogId(results, map) ==
    IF results = <<>> THEN map
    ELSE LET row == Head(results)
         IN resultsMapByLogId(Tail(results),
                IF row.log_id \notin DOMAIN map.val
                THEN [keys |-> Append(map.keys, row.log_id),
                      val |-> MapSet(map.val, row.log_id, DeletedPage(row))]
                ELSE [map EXCEPT !.val[row.log_id].deleted =
                        betterCandidate(map.val[row.log_id].deleted, row)])

RECURSIVE resultsMap(_, _)
\* for ( const row of results ): map is the map so far.
resultsMap(results, map) ==
    IF results = <<>> THEN map
    ELSE LET row == Head(results)
         IN resultsMap(Tail(results),
                IF row.ar_id \notin DOMAIN map.val
                THEN [keys |-> Append(map.keys, row.ar_id),
                      val |-> MapSet(map.val, row.ar_id, DeletedPage(row))]
                ELSE [map EXCEPT !.val[row.ar_id].deleted =
                        betterCandidate(map.val[row.ar_id].deleted, row)])

\* Array.from( resultsMap.values() )
ArrayFromValues(map) == [i \in DOMAIN map.keys |-> map.val[map.keys[i]]]

InitDeletedPages ==
    /\ input \in {[fn |-> "fetch", results |-> results] :
                     results \in withArchiveDeletion}
    /\ output = <<>>

\* UserDeletedPageFetcher.fetch, from the answer of the query on: the
\* entries of the map by ar_id, and the array returned.
FetchDeletedPages ==
    /\ input.fn = "fetch"
    /\ output = <<>>
    /\ LET map == resultsMap(input.results, NewResultsMap)
       IN output' = <<map.val, ArrayFromValues(map)>>
    /\ UNCHANGED input

InitP == InitComponents /\ InitDeletedPages

NextP == FetchDeletedPages /\ UNCHANGED <<expanderVars, storeVars, taskVars, siteVars, sessionVars>>

\* One call of UserDeletedPageFetcher.fetch.
SpecDeletedPages == InitP /\ [][NextP]_vars

(***************************************************************************)
(* UserTalkPageFetcher.processRevisions                                    *)
(***************************************************************************)

\* The most revisions of a page history, and the most matches in the
\* content of one revision.
MaxRevisions == 3
MaxMatches == 2

\* The filters of a request: an array of strings, or one bare string.
ScanFilters ==
    {[isArray |-> TRUE, strings |-> <<"uw-test1", "uw-test2">>],
     [isArray |-> FALSE, strings |-> <<"uw-test1">>]}

\* The content of a revision, as far as the scan reads it: the filter
\* strings occurring in it, in the order of their positions; Null is the
\* content of a revision whose slot is deleted.
PageContents ==
    {Null} \cup UNION {[1..n -> {"uw-test1", "uw-test2"}] : n \in 0..MaxMatches}

\* The histories of a page, oldest revision first (rvdir: 'newer').
PageHistories == UNION {[1..n -> PageContents] : n \in 1..MaxRevisions}

\* stringMatches( content, filter ).offset, the filter of each match: one
\* entry for every occurrence of a string of the filter.
stringMatches(content, filter) ==
    SelectSeq(content, LAMBDA m : m \in Range(filter.strings))

\* JSON.stringify of a string (of no character that needs an escape).
JSONstringify(s) == "\"" \o s \o "\""

\* A Map: its keys in the order of their insertion, and their values.
NewMap == [keys |-> <<>>, val |-> EmptyMap]

countsHas(map, key) == key \in DOMAIN map.val

countsGet(map, key, default) == IF countsHas(map, key) THEN map.val[key] ELSE default

countsSet(map, key, value) ==
    [keys |-> IF countsHas(map, key) THEN map.keys ELSE Append(map.keys, key),
     val |-> MapSet(map.val, key, value)]

RECURSIVE countItems(_, _)
\* for ( const item of arr ) counts.set( item, ( counts.get( item ) ?? 0 ) + 1 )
countItems(arr, counts) ==
    IF arr = <<>> THEN counts
    ELSE countItems(Tail(arr),
            countsSet(counts, Head(arr), countsGet(counts, Head(arr), 0) + 1))

RECURSIVE forceKeys(_, _)
\* for ( const key of forcedKeys ) if ( !counts.has( key ) ) counts.set( key, 0 )
forceKeys(forcedKeys, counts) ==
    IF forcedKeys = <<>> THEN counts
    ELSE forceKeys(Tail(forcedKeys),
            IF countsHas(counts, Head(forcedKeys)) THEN counts
            ELSE countsSet(counts, Head(forcedKeys), 0))

countInstances(arr, forcedKeys) == forceKeys(forcedKeys, countItems(arr, NewMap))

\* filterLookup[ hitFilter ]: <<matchFilter>>, or <<>> for undefined.
filterLookup(matches, hitFilter) ==
    IF \E i \in DOMAIN matches : JSONstringify(matches[i]) = hitFilter
    THEN <<CHOOSE f \in Range(matches) : JSONstringify(f) = hitFilter>>
    ELSE Undefined

Abs(n) == IF n < 0 THEN 0 - n ELSE n

RECURSIVE hitEvents(_, _, _, _, _)
\* for ( const [ hitFilter, hitCount ] of hits.entries() ): the events pushed
\* for the keys hitFilters of hits.
hitEvents(hitFilters, hits, lastHits, matches, revid) ==
    IF hitFilters = <<>> THEN <<>>
    ELSE LET hitFilter == Head(hitFilters)
             hitDelta == hits.val[hitFilter] - countsGet(lastHits, hitFilter, 0)
             event == [revid |-> revid,
                       filter |-> filterLookup(matches, hitFilter),
                       action |-> IF hitDelta > 0 THEN "add" ELSE "remove"]
         IN [i \in 1..Abs(hitDelta) |-> event]
                \o hitEvents(Tail(hitFilters), hits, lastHits, matches, revid)

RECURSIVE revisionLoopCountingNull(_, _, _, _, _)
\* The loop counting in a revision without content as in one of empty
\* content.
revisionLoopCountingNull(revisions, revid, filter, history, lastHits) ==
    IF revid > Len(revisions) THEN history
    ELSE LET matches == stringMatches(revisions[revid], filter)
             filterSanitized == [i \in DOMAIN matches |-> JSONstringify(matches[i])]
             hits == countInstances(filterSanitized,
                        (IF filter.isArray THEN filter.strings ELSE <<>>)
                            \o lastHits.keys)
         IN revisionLoopCountingNull(revisions, revid + 1, filter,
                history \o hitEvents(hits.keys, hits, lastHits, matches, revid),
                hits)

RECURSIVE revisionLoop(_, _, _, _, _)
\* for ( const revision of response.query.pages[ 0 ].revisions ), from
\* revision revid on; history and lastHits are those of the revisions before.
revisionLoop(revisions, revid, filter, history, lastHits) ==
    IF revid > Len(revisions) THEN history
    ELSE IF revisions[revid] = Null
    THEN revisionLoop(revisions, revid + 1, filter, history, lastHits)
    ELSE LET matches == stringMatches(revisions[revid], filter)
             filterSanitized == [i \in DOMAIN matches |-> JSONstringify(matches[i])]
             hits == countInstances(filterSanitized,
                        (IF filter.isArray THEN filter.strings ELSE <<>>)
                            \o lastHits.keys)
         IN revisionLoop(revisions, revid + 1, filter,
                history \o hitEvents(hits.keys, hits, lastHits, matches, revid),
                hits)

\* new Map( Array.isArray( filter ) ? filter.map( f => [ f, 0 ] ) : [] )
initialHits(filter) ==
    IF filter.isArray THEN forceKeys(filter.strings, NewMap) ELSE NewMap

\* processRevisions: the revisions of the answer (history).
processRevisions(revisions, filter) ==
    revisionLoop(revisions, 1, filter, <<>>, initialHits(filter))

InitTalkPage ==
    /\ input \in {[fn |-> "processRevisions", revisions |-> revisions,
                   filter |-> filter] :
                     revisions \in PageHistories, filter \in ScanFilters}
    /\ output = <<>>

ProcessRevisions ==
    /\ input.fn = "processRevisions"
    /\ output = <<>>
    /\ output' = <<processRevisions(input.revisions, input.filter)>>
    /\ UNCHANGED input

InitU == InitComponents /\ InitTalkPage

NextU == ProcessRevisions /\ UNCHANGED <<expanderVars, storeVars, taskVars, siteVars, sessionVars>>

\* One scan of a talk page.
SpecTalkPage == InitU /\ [][NextU]_vars

(***************************************************************************)
(* UserSearchTalk.searchUserTalkPage                                       *)
(***************************************************************************)

\* The filters of the requests.  An array has its strings; an object has
\* source and flags, sequences of characters; json is the filter inside
\* JSON.stringify( { user, wiki, filter } ).
SearchFilter(type, strings, source, flags, json) ==
    [type |-> type, strings |-> strings, source |-> source, flags |-> flags,
     json |-> json]

SearchFilters ==
    {SearchFilter("array", <<>>, <<>>, <<>>, "[]"),
     SearchFilter("array", <<"uw-test1">>, <<>>, <<>>, "[uw-test1]"),
     SearchFilter("string", <<"uw-test1">>, <<>>, <<>>, "uw-test1"),
     SearchFilter("object", <<>>, <<"(", "u", ")">>, <<"g">>, "{(u),g}"),
     SearchFilter("object", <<>>, <<"(", "u">>, <<"g">>, "{(u,g}"),
     SearchFilter("object", <<>>, <<"u">>, <<"x">>, "{u,x}")}

RECURSIVE GroupsClose(_, _)
\* The groups of a pattern close: no ")" without its "(", no "(" left open.
GroupsClose(source, open) ==
    IF source = <<>> THEN open = 0
    ELSE IF Head(source) = "(" THEN GroupsClose(Tail(source), open + 1)
    ELSE IF Head(source) = ")"
    THEN open > 0 /\ GroupsClose(Tail(source), open - 1)
    ELSE GroupsClose(Tail(source), open)

\* new RegExp( filter.source, filter.flags ) does not throw.
RegExpCompiles(source, flags) ==
    /\ GroupsClose(source, 0)
    /\ Range(flags) \subseteq {"d", "g", "i", "m", "s", "u", "y"}
    /\ \A i \in DOMAIN flags : \A j \in DOMAIN flags :
          i # j => flags[i] # flags[j]

\* The filter tests of searchUserTalkPage: the request is answered with
\* errorInvalidFilter.
invalidFilter(filter) ==
    IF filter.type = "array"
    THEN Len(filter.strings) > 0
    ELSE IF filter.type = "object"
    THEN ~RegExpCompiles(filter.source, filter.flags)
    ELSE FALSE

\* The response of a POST of controller c that has just been handled.
PostResponse(c) ==
    CASE lastReq.op = "post-invalidfilter" ->
            ProgressResponse(400, "invalidfilter", 0, 0, FALSE, "")
      [] lastReq.op = "post-unsupported" ->
            ProgressResponse(400, "unsupportedwiki", 0, 0, FALSE, "")
      [] lastReq.op = "post-cached" ->
            handleProgressRequest(c, lastReq.id, 200)
      [] lastReq.op = "post-run" ->
            handleProgressRequest(c, lastReq.id, 202)

\* What is known of a POST of a task controller once it has been answered.
TaskCall(fn, bypassCache, wiki, filter) ==
    [fn |-> fn, bypassCache |-> bypassCache, wiki |-> wiki,
     filter |-> filter, at |-> "returned"]

\* JSON.stringify( { user, wiki } ) and JSON.stringify( { user, wiki,
\* filter } ), the user being one and the same.
cacheKey(wiki, filterJson) == "{user," \o wiki \o filterJson \o "}"

\* POST /v1/user/search-talk, from the answer of getDbName on.
searchUserTalkPage(bypassCache, wiki, filter) ==
    LET site == getDbName(wiki) # Undefined
        key == cacheKey(wiki, "," \o filter.json)
    IN /\ IF site /\ invalidFilter(filter)
          THEN /\ lastReq' = Req("post-invalidfilter", "UserSearchTalk",
                                 key, bypassCache, 0)
               /\ UNCHANGED <<now, taskLists, taskObjects, processState,
                              requestCache, taskHistory>>
          ELSE Post("UserSearchTalk", key, bypassCache, site)
       /\ input' = TaskCall("searchUserTalkPage", bypassCache, wiki, filter)
       /\ output' = <<PostResponse("UserSearchTalk")'>>

\* POST /v1/user/deleted-revisions (getUserDeletedRevisions) and POST
\* /v1/user/largest-edits (getUserDeletedPages), from the answer of
\* getDbName on.
getUserDeleted(c, bypassCache, wiki) ==
    /\ Post(c, cacheKey(wiki, ""), bypassCache, getDbName(wiki) # Undefined)
    /\ input' = TaskCall(IF c = "UserDeletedRevisions"
                         THEN "getUserDeletedRevisions"
                         ELSE "getUserDeletedPages",
                         bypassCache, wiki, SearchFilter("", <<>>, <<>>, <<>>, ""))
    /\ output' = <<PostResponse(c)'>>

SearchTalkCall(Wikis, Filters) ==
    \E bypassCache \in BOOLEAN : \E wiki \in Wikis :
        \E filter \in Filters :
            searchUserTalkPage(bypassCache, wiki, filter)

UserDeletedCall ==
    \E c \in Controllers : \E bypassCache \in BOOLEAN :
        \E wiki \in DbNames : getUserDeleted(c, bypassCache, wiki)

InitK ==
    /\ InitTasks
    /\ InitExpander /\ badrevids = {}
    /\ InitStore /\ ~privileged /\ stream = "none"
    /\ NoCall /\ NoLookup /\ NoClient

NextK ==
    /\ \/ SearchTalkCall({"enwiki", "nowiki"}, SearchFilters)
       \/ (WorkerFinish \/ TimePasses) /\ UNCHANGED callVars
    /\ UNCHANGED <<expanderVars, storeVars, siteVars, sessionVars>>

\* The search-talk controller: its POST requests, its workers and the clock.
SpecSearchTalk == InitK /\ [][NextK]_vars

(***************************************************************************)
(* MediaWikiRevisionController                                             *)
(***************************************************************************)

GET_LIMIT == 50

\* The timeout of the race, in milliseconds.
EXPANDER_TIMEOUT == 10000

Digits == <<"0", "1", "2", "3", "4", "5", "6", "7", "8", "9">>

RECURSIVE Decimal(_)
\* The decimal digits of a natural number.
Decimal(n) ==
    IF n < 10 THEN <<Digits[n + 1]>>
    ELSE Decimal(n \div 10) \o <<Digits[(n % 10) + 1]>>

RECURSIVE JoinIds(_)
\* The ids as a client writes them: decimal, separated by pipes.
JoinIds(ids) ==
    IF Len(ids) = 1 THEN Decimal(ids[1])
    ELSE Decimal(ids[1]) \o <<"|">> \o JoinIds(Tail(ids))

\* A value of the parameter revisions: a string (its characters), or an
\* array of numbers (POST only).
StringValue(chars) == [isString |-> TRUE, chars |-> chars, items |-> <<>>]

ArrayValue(items) == [isString |-> FALSE, chars |-> <<>>, items |-> items]

\* The values of revisions in the requests: "", " ", ids, an id that is no
\* number, an id below 1, one id more than GET_LIMIT.
RevisionsValues ==
    {StringValue(<<>>), StringValue(<<" ">>), StringValue(JoinIds(<<1>>)),
     StringValue(JoinIds(<<1, 2>>)), StringValue(<<"x">>),
     StringValue(JoinIds(<<0, 2>>)),
     StringValue(JoinIds([i \in 1..(GET_LIMIT + 1) |-> i])),
     ArrayValue(<<2>>)}

\* An element of the array revisions: a string or a number.
StringToken(chars) == [isNumber |-> FALSE, chars |-> chars, n |-> 0]

NumberToken(n) == [isNumber |-> TRUE, chars |-> <<>>, n |-> n]

RECURSIVE split(_)
\* revisions.split( '|' ): the characters before the first pipe, and the
\* split of those after it.
split(chars) ==
    IF \A i \in DOMAIN chars : chars[i] # "|"
    THEN <<StringToken(chars)>>
    ELSE LET pipe == CHOOSE i \in DOMAIN chars :
                         chars[i] = "|" /\ \A j \in 1..(i - 1) : chars[j] # "|"
         IN <<StringToken(SubSeq(chars, 1, pipe - 1))>>
                \o split(SubSeq(chars, pipe + 1, Len(chars)))

\* The array that getRevisionsGet and getRevisionsPost pass on.
revisionsArray(value) ==
    IF value.isString THEN split(value.chars)
    ELSE [i \in DOMAIN value.items |-> NumberToken(value.items[i])]

\* String.prototype.trim, of spaces
RECURSIVE trimStart(_)
trimStart(chars) ==
    IF chars # <<>> /\ Head(chars) = " " THEN trimStart(Tail(chars)) ELSE chars

RECURSIVE trimEnd(_)
trimEnd(chars) ==
    IF chars # <<>> /\ chars[Len(chars)] = " "
    THEN trimEnd(SubSeq(chars, 1, Len(chars) - 1))
    ELSE chars

RECURSIVE digitsValue(_, _)
digitsValue(chars, n) ==
    IF chars = <<>> THEN n
    ELSE digitsValue(Tail(chars),
            10 * n + (CHOOSE d \in 0..9 : Digits[d + 1] = Head(chars)))

\* +v, the conversion to a number: of a string, its number with the spaces
\* around it dropped, 0 if nothing is left, NaN if it is no number.
ToNumber(v) ==
    IF v.isNumber THEN [nan |-> FALSE, n |-> v.n]
    ELSE LET chars == trimEnd(trimStart(v.chars))
             digits == IF chars # <<>> /\ Head(chars) = "-" THEN Tail(chars)
                       ELSE chars
         IN IF chars = <<>> THEN [nan |-> FALSE, n |-> 0]
            ELSE IF digits = <<>> \/ ~(Range(digits) \subseteq Range(Digits))
            THEN [nan |-> TRUE, n |-> 0]
            ELSE [nan |-> FALSE,
                  n |-> IF Head(chars) = "-" THEN 0 - digitsValue(digits, 0)
                        ELSE digitsValue(digits, 0)]

\* revisions.filter( v => !!v && ( typeof v === 'number' || v.length > 0 ) )
cleanUp(revisions) ==
    SelectSeq(revisions,
        LAMBDA v : IF v.isNumber THEN v.n # 0 ELSE Len(v.chars) > 0)

\* A response of the endpoint: an error, or version 1 with the revisions.
RevisionsError(status, code) ==
    [status |-> status, code |-> code, revisions |-> EmptyMap]

RevisionsOK(finalRevisions) ==
    [status |-> 200, code |-> "", revisions |-> finalRevisions]

\* !site || site.nonglobal !== undefined
unsupportedWiki(site) == site = Undefined \/ site[1].nonglobal

\* The test of the limit without the method.
methodLimitedAnyMethod(revisions, method) == Len(revisions) > GET_LIMIT

\* revisions.length > 50 && req.method === 'GET'
methodLimited(revisions, method) ==
    Len(revisions) > GET_LIMIT /\ method = "GET"

\* The answer of the tests that precede every lookup: <<response>>, or <<>>
\* if the request passes them.
rejected(method, site, revisions) ==
    IF unsupportedWiki(site)
    THEN <<RevisionsError(422, "unsupportedwiki")>>
    ELSE IF Len(revisions) = 0
    THEN <<RevisionsError(422, "revisions-missing")>>
    ELSE IF methodLimited(revisions, method)
    THEN <<RevisionsError(403, "method-limited")>>
    ELSE IF \E i \in DOMAIN revisions : ToNumber(revisions[i]).nan
    THEN <<RevisionsError(422, "badinteger")>>
    ELSE <<>>

\* The revision ids of the array.
revisionIds(revisions) == {ToNumber(revisions[i]).n : i \in DOMAIN revisions}

\* The ids marked invalid.
invalidIds(revisions) == {id \in revisionIds(revisions) : id < 1}

InvalidRevision(id) == [revid |-> id, invalid |-> TRUE]

\* The loop over revisions: what it leaves in finalRevisions, reading the
\* entries m of the store.
finalRevisionsOf(m, revisions) ==
    [id \in invalidIds(revisions)
            \cup (revisionIds(revisions) \cap DOMAIN m) |->
        IF id < 1 THEN InvalidRevision(id) ELSE get(m, id)[1]]

\* Every valid id of the request.
forProcessingOfAll(m, revisions) ==
    revisionIds(revisions) \ invalidIds(revisions)

\* The ids of forProcessing.
forProcessingOf(m, revisions) ==
    (revisionIds(revisions) \ invalidIds(revisions)) \ DOMAIN m

\* What is known of the request being handled.  at: idle, race or returned;
\* lookedUp: the ids asked of the store; processingRevisions: the handles
\* of expander.queue( forProcessing ), <<>> pending or <<revision>>;
\* failed: the request of the expander has failed.
RevisionsCall(method, wiki, value, at, lookedUp, finalRevisions,
              processingRevisions, failed) ==
    [fn |-> "getRevisions", method |-> method, wiki |-> wiki,
     value |-> value, at |-> at, lookedUp |-> lookedUp,
     finalRevisions |-> finalRevisions,
     processingRevisions |-> processingRevisions, failed |-> failed]

NoRevisionsCall ==
    RevisionsCall("", "", StringValue(<<>>), "idle", {}, EmptyMap, EmptyMap,
                  FALSE)

\* The store is left as it is.
StoreUnchanged ==
    UNCHANGED <<privileged, stream, store, visListeners, tagListeners,
                lastOp, hiddenBy, shownBy>>

\* getRevisions, from the answer of getDbName up to the race: the tests,
\* the lookups in the store, and the call of expander.queue.
GetRevisions(method, wiki, value) ==
    LET site == getDbName(wiki)
        revisions == cleanUp(revisionsArray(value))
        answer == rejected(method, site, revisions)
        finalRevisions == finalRevisionsOf(store, revisions)
        toProcess == forProcessingOf(store, revisions)
    IN /\ input.at \in {"idle", "returned"}
       /\ method = "GET" => value.isString
       /\ IF answer # <<>>
          THEN /\ input' = RevisionsCall(method, wiki, value, "returned", {},
                                         EmptyMap, EmptyMap, FALSE)
               /\ output' = answer
          ELSE IF toProcess = {}
          THEN /\ input' = RevisionsCall(method, wiki, value, "returned",
                              revisionIds(revisions) \ invalidIds(revisions),
                              finalRevisions, EmptyMap, FALSE)
               /\ output' = <<RevisionsOK(finalRevisions)>>
          ELSE /\ input' = RevisionsCall(method, wiki, value, "race",
                              revisionIds(revisions) \ invalidIds(revisions),
                              finalRevisions,
                              [id \in toProcess |-> <<>>], FALSE)
               /\ output' = <<>>
       /\ StoreUnchanged

\* The handles of the call that are pending.
pendingHandles(call) ==
    {id \in DOMAIN call.processingRevisions :
        call.processingRevisions[id] = <<>>}

\* The next batch of the expander: the PER_BATCH least pending ids.
nextBatch(call) ==
    {id \in pendingHandles(call) :
        Cardinality({o \in pendingHandles(call) : o < id}) < PER_BATCH}

\* The upstream answers the request of a batch and the expander resolves
\* the handles of the batch.
ExpanderResolves ==
    /\ input.at = "race"
    /\ ~input.failed
    /\ pendingHandles(input) # {}
    /\ input' = [input EXCEPT !.processingRevisions =
                    [id \in DOMAIN @ |->
                        IF id \in nextBatch(input)
                        THEN <<ExpandedRevision(id, {})>> ELSE @[id]]]
    /\ UNCHANGED output
    /\ StoreUnchanged

\* The request of a batch fails: the expander rejects no handle and drains
\* no more, the handles left stay pending.
ExpanderFails ==
    /\ input.at = "race"
    /\ ~input.failed
    /\ pendingHandles(input) # {}
    /\ input' = [input EXCEPT !.failed = TRUE]
    /\ UNCHANGED output
    /\ StoreUnchanged

\* The catch block with the revisions that have resolved given back.
raceLostKeepingResolved(call) ==
    [response |-> RevisionsOK(
        [id \in DOMAIN call.finalRevisions
                \cup (DOMAIN call.processingRevisions \ pendingHandles(call)) |->
            IF id \in DOMAIN call.finalRevisions THEN call.finalRevisions[id]
            ELSE call.processingRevisions[id][1]]),
     written |-> DOMAIN call.processingRevisions \ pendingHandles(call)]

\* The catch block: the race is lost to timeoutPromise.  The response, and
\* the ids written to the store.
raceLost(call) ==
    [response |-> RevisionsError(500, "expander-timeout"), written |-> {}]

\* The try block after the race is won: every handle has resolved.
raceWon(call) ==
    [response |-> RevisionsOK(
        [id \in DOMAIN call.finalRevisions \cup DOMAIN call.processingRevisions |->
            IF id \in DOMAIN call.processingRevisions
            THEN call.processingRevisions[id][1] ELSE call.finalRevisions[id]]),
     written |-> DOMAIN call.processingRevisions]

\* MediaWikiRevisionController.revisionStore.set( +revision, expandedRevision )
\* for the ids written, and the response.
Respond(outcome) ==
    /\ store' = [id \in DOMAIN store \cup
                        {w \in outcome.written :
                            w \in DOMAIN set(store, w, input.processingRevisions[w][1]).entries} |->
                    IF id \in outcome.written
                    THEN set(store, id, input.processingRevisions[id][1]).entries[id]
                    ELSE store[id]]
    /\ lastOp' = IF outcome.written = {} THEN lastOp
                 ELSE Op("set", CHOOSE w \in outcome.written : TRUE, {}, FALSE)
    /\ hiddenBy' = [id \in DOMAIN hiddenBy |->
                       IF id \in outcome.written /\ id \in DOMAIN store'
                       THEN {} ELSE hiddenBy[id]]
    /\ shownBy' = [id \in DOMAIN shownBy |->
                      IF id \in outcome.written /\ id \in DOMAIN store'
                      THEN {} ELSE shownBy[id]]
    /\ UNCHANGED <<privileged, stream, visListeners, tagListeners>>
    /\ input' = [input EXCEPT !.at = "returned"]
    /\ output' = <<outcome.response>>

\* timeoutPromise rejects, EXPANDER_TIMEOUT after the race began, with
\* handles still pending.
TimeoutFires ==
    /\ input.at = "race"
    /\ pendingHandles(input) # {}
    /\ Respond(raceLost(input))

\* Promise.all resolves: the handles have all resolved before the timeout.
AllResolved ==
    /\ input.at = "race"
    /\ pendingHandles(input) = {}
    /\ Respond(raceWon(input))

GetRevisionsCall(Values) ==
    \E method \in {"GET", "POST"} : \E wiki \in DbNames :
        \E value \in Values : GetRevisions(method, wiki, value)

\* The controller after start-up: its store is RevisionStore( false, true ),
\* the stream connecting; no request yet.
InitRevisions ==
    /\ InitStore /\ ~privileged /\ stream = "Connecting"
    /\ input = NoRevisionsCall
    /\ output = <<>>

InitR ==
    /\ InitRevisions
    /\ InitTasks /\ NoLookup /\ NoClient
    /\ InitExpander /\ badrevids = {}

\* The steps of the revisions endpoint, its requests having the values
\* Values.
RevisionsStep(Values) ==
    \/ GetRevisionsCall(Values)
    \/ ExpanderResolves
    \/ ExpanderFails
    \/ TimeoutFires
    \/ AllResolved
    \/ StreamOpened /\ UNCHANGED callVars

NextR ==
    RevisionsStep(RevisionsValues)
        /\ UNCHANGED <<expanderVars, taskVars, siteVars, sessionVars>>

\* The revisions endpoint: requests one at a time, the expander of the
\* request, the timeout, and the stream of the store opening.
SpecRevisions == InitR /\ [][NextR]_vars

(***************************************************************************)
(* The routes that take a wiki                                             *)
(***************************************************************************)

\* A POST of a task controller, when no other request is being handled.
TaskRouteCall ==
    /\ input.at \in {"idle", "returned"}
    /\ \/ UserDeletedCall
       \/ SearchTalkCall(DbNames,
                         {SearchFilter("string", <<"uw-test1">>, <<>>, <<>>,
                                       "uw-test1")})
    /\ StoreUnchanged

NextA ==
    /\ \/ RevisionsStep({StringValue(JoinIds(<<1>>))}) /\ UNCHANGED taskVars
       \/ TaskRouteCall
    /\ UNCHANGED <<expanderVars, siteVars, sessionVars>>

\* The revisions endpoint and the POST endpoints of the task controllers,
\* one request at a time.
SpecRoutes == InitR /\ [][NextA]_vars

(***************************************************************************)
(* RevisionExpander: properties                                            *)
(***************************************************************************)

\* The runner has nothing left to do: no pass running, none scheduled, and
\* the pending set is empty.
Quiescent == ~running /\ timers = 0 /\ DOMAIN revisionQueue = {}

\* C1: whatever queue calls were made, once the expander has drained (no pass
\* running or scheduled, pending set empty) every handle returned by queue
\* has been resolved exactly once, with the revision or the missing marker
\* of its id.
C1_EveryHandleResolvedOnce ==
    Quiescent =>
        \A h \in DOMAIN handles :
            /\ handles[h].resolved = 1
            /\ handles[h].value = UpstreamRevision(h[2])

\* C2: when queue was called for an id whose earlier handle was unresolved,
\* neither handle stays pending: once the expander has drained, both are
\* resolved and carry the same value.
C2_ReissuedHandleResolvesAlike ==
    Quiescent =>
        \A p \in reissued :
            /\ ~IsPending(handles[p[1]])
            /\ ~IsPending(handles[p[2]])
            /\ handles[p[1]].value = handles[p[2]].value

\* C3: the array handed to request by a pass never holds more than PER_BATCH
\* ids.
C3_BatchAtMostPerBatch == Len(requested) <= PER_BATCH

\* C3 witness: a full batch is in flight while further ids are pending.
C3_Witness ==
    /\ pc = "request"
    /\ Len(requested) = PER_BATCH
    /\ DOMAIN revisionQueue # {}

\* C4: when the request of a batch has failed, every handle of that batch has
\* been rejected.
C4_FailedBatchRejected ==
    pc = "failed" =>
        \A h \in failedBatch :
            handles[h].rejected >= 1 /\ ~IsPending(handles[h])

\* C5: after a batch has failed the runner is not stuck: whenever ids are
\* pending, a later pass is scheduled or can be started by the next call.
C5_RunnerNotStuckAfterFailure ==
    (pc = "failed" /\ DOMAIN revisionQueue # {}) =>
        (timers > 0 \/ ~running)

\* C6: batch composition is FIFO over insertion order: every id left pending
\* by a pass was inserted after every id of the batch of that pass.
C6_BatchIsFifo ==
    pc = "request" =>
        \A i \in DOMAIN forProcessing : \A j \in DOMAIN revisionQueue :
            queuedAt[forProcessing[i]] < queuedAt[revisionQueue[j]]

(***************************************************************************)
(* RevisionStore: properties                                               *)
(***************************************************************************)

\* C7: a set call changes the store only while the stream is Open, and then
\* only the entry of its key; in every other stream state it throws nothing
\* and leaves the entries as they were.
C7_SetOnlyWhileOpen ==
    [][lastOp'.op = "set" =>
         /\ ~lastOp'.threw
         /\ stream # "Open" => store' = store
         /\ \A k \in (DOMAIN store \cup DOMAIN store') \ {lastOp'.key} :
               k \in DOMAIN store /\ k \in DOMAIN store' /\ store'[k] = store[k]
      ]_vars

\* C7 witness: set was called after the stream was closed, on a store that
\* holds an entry, and the key of the call was not added.
C7_Witness ==
    /\ lastOp.op = "set"
    /\ stream = "Closed"
    /\ store # EmptyMap
    /\ lastOp.key \notin DOMAIN store

C10_StartStreamIdempotent ==
    /\ [][(lastOp'.op = "startStream" /\ stream \in {"Open", "Connecting"})
          => UNCHANGED <<stream, visListeners, tagListeners, store>>]_vars
    /\ [](visListeners <= 1 /\ tagListeners <= 1)

\* C10 witness: startStream was called on an Open stream of a store that
\* holds an entry.
C10_Witness ==
    /\ lastOp.op = "startStream"
    /\ stream = "Open"
    /\ store # EmptyMap

(***************************************************************************)
(* Async task engine: properties                                           *)
(***************************************************************************)

\* The entry of task id in the registry of controller c, read directly.
Entry(c, id) == taskLists[getTaskListId(c)][id]

InRegistry(c, id) == id \in DOMAIN taskLists[getTaskListId(c)]

\* C11: handleResultRequest( id ) answers by the state of the task: 404
\* task-missing when the id is not in the registry of the controller, 500
\* task-uncaught-generic when the entry is a captured Error, 409
\* task-unfinished when the task is there and not finished, and otherwise
\* the stored result with no error status; one outcome in every state.
C11_ResultByTaskState ==
    \A c \in Controllers : \A id \in 1..MaxTasks :
        LET r == handleResultRequest(c, id)
        IN /\ ~InRegistry(c, id) =>
                  r = ResultResponse(404, "task-missing", Undefined)
           /\ InRegistry(c, id) /\ Entry(c, id).error =>
                  r = ResultResponse(500, "task-uncaught-generic", Undefined)
           /\ InRegistry(c, id) /\ ~Entry(c, id).error
                 /\ ~taskObjects[id].finished =>
                  r = ResultResponse(409, "task-unfinished", Undefined)
           /\ InRegistry(c, id) /\ ~Entry(c, id).error
                 /\ taskObjects[id].finished =>
                  r = ResultResponse(200, "", taskObjects[id].result)

\* A result request was answered 500 for a task whose worker failed.
C11_Witness ==
    /\ lastReq.op = "result"
    /\ InRegistry(lastReq.ctl, lastReq.id)
    /\ Entry(lastReq.ctl, lastReq.id).error
    /\ handleResultRequest(lastReq.ctl, lastReq.id).status = 500

\* C12: the progress payload of a task says finished, and carries the header
\* Location: .., exactly when getTaskFinished is true; once that is true of
\* an id it is true whenever the id is in the registry later, also for an
\* entry that left the registry and came back; and a request for progress
\* starts no process and changes no task.
C12_FinishedIsStable ==
    /\ [](\A c \in Controllers : \A id \in TaskIds :
             InRegistry(c, id) =>
                LET payload == handleProgressRequest(c, id, 200)
                IN /\ payload.finished = getTaskFinished(c, id)
                   /\ (payload.location = "..") = payload.finished)
    /\ [][/\ \A c \in Controllers : \A id \in TaskIds :
                (/\ InRegistry(c, id)'
                 /\ ~InRegistry(c, id) \/ getTaskFinished(c, id)) =>
                    getTaskFinished(c, id)'
          /\ lastReq'.op \in {"progress", "post-cached"} =>
                UNCHANGED <<taskLists, taskObjects, processState>>]_vars

\* A progress request was answered finished, with the header, after the
\* worker called finish.
C12_Witness ==
    /\ lastReq.op = "progress"
    /\ InRegistry(lastReq.ctl, lastReq.id)
    /\ ~Entry(lastReq.ctl, lastReq.id).error
    /\ taskHistory[lastReq.id].finishArgs # <<>>
    /\ handleProgressRequest(lastReq.ctl, lastReq.id, 200).finished
    /\ handleProgressRequest(lastReq.ctl, lastReq.id, 200).location = ".."

\* C13 as claimed: the progress observed of a task that is neither finished
\* nor failed is never below a value it had before.
C13_ProgressNeverDecreases ==
    \A c \in Controllers : \A id \in 1..MaxTasks :
        (InRegistry(c, id) /\ ~getTaskFinished(c, id)) =>
            getTaskProgress(c, id) >= taskHistory[id].peak

\* C13: the progress observed of a task that is neither finished nor failed
\* goes down only in a call of updateProgress by its worker with a value
\* below the current one, and then to that value clamped to 0..1; no
\* request, sweep, finish or captured failure lowers it.
C13_OnlyWorkerLowersProgress ==
    [][\A c \in Controllers : \A id \in 1..MaxTasks :
          (/\ InRegistry(c, id)
           /\ InRegistry(c, id)'
           /\ ~getTaskFinished(c, id)
           /\ getTaskProgress(c, id)' < getTaskProgress(c, id)) =>
              /\ lastReq'.op = "updateProgress"
              /\ lastReq'.id = id
              /\ \E progress \in ProgressArgs :
                    /\ progress < getTaskProgress(c, id)
                    /\ getTaskProgress(c, id)' = MathMax(0, progress)]_vars

\* A worker lowered the progress of its running task.
C13_Witness ==
    /\ lastReq.op = "updateProgress"
    /\ \E c \in Controllers :
          /\ InRegistry(c, lastReq.id)
          /\ ~getTaskFinished(c, lastReq.id)
          /\ getTaskProgress(c, lastReq.id) < taskHistory[lastReq.id].peak

\* C14: when the promise of process rejects, the id of the task is in the
\* registry as a captured Error, and for as long as a failed task's id is in
\* the registry its entry is that Error: getTaskProgress says 1,
\* getTaskFinished true, getTaskResult null, and the entry is never a
\* running task again.
C14_FailureIsTerminal ==
    /\ [](\A id \in 1..MaxTasks :
            (id \in TaskIds /\ processState[id] = "rejected"
                /\ InRegistry(taskHistory[id].ctl, id)) =>
                /\ Entry(taskHistory[id].ctl, id).error
                /\ getTaskProgress(taskHistory[id].ctl, id) = One
                /\ getTaskFinished(taskHistory[id].ctl, id)
                /\ getTaskResult(taskHistory[id].ctl, id) = Null)
    /\ [][\A id \in 1..MaxTasks :
            (id \in TaskIds /\ processState[id] = "pending"
                /\ processState'[id] = "rejected") =>
                /\ InRegistry(taskHistory[id].ctl, id)'
                /\ Entry(taskHistory[id].ctl, id)'.error]_vars

\* A result request was answered for a task that failed halfway.
C14_Witness ==
    /\ lastReq.op = "result"
    /\ lastReq.id \in TaskIds
    /\ processState[lastReq.id] = "rejected"
    /\ taskHistory[lastReq.id].peak = 50
    /\ InRegistry(lastReq.ctl, lastReq.id)
    /\ getTaskProgress(lastReq.ctl, lastReq.id) = One

\* C15: a task in a registry that reports finished has a result: the value
\* its worker last gave to finish, or the entry is a captured Error.
C15_FinishedHasResult ==
    \A c \in Controllers : \A id \in 1..MaxTasks :
        (InRegistry(c, id) /\ getTaskFinished(c, id)) =>
            \/ Entry(c, id).error
            \/ /\ taskHistory[id].finishArgs # <<>>
               /\ taskObjects[id].result = taskHistory[id].finishArgs
               /\ getTaskResult(c, id) = taskHistory[id].finishArgs

\* A result request was answered with the value given to finish.
C15_Witness ==
    /\ lastReq.op = "result"
    /\ handleResultRequest(lastReq.ctl, lastReq.id).status = 200
    /\ handleResultRequest(lastReq.ctl, lastReq.id).body = <<"result">>

\* now is past the expiry time of task id.
ExpireTimePassed(id) == now > taskObjects[id].expireTime

\* C16: sweepTasks() on a controller removes from its registry the entries
\* that are captured Errors and the tasks whose expiry time has passed, and
\* nothing else: every other entry is there after the sweep, its task
\* unchanged.
C16_SweepTasksFrame ==
    [][\A c \in Controllers :
          (lastReq'.op = "sweepTasks" /\ lastReq'.ctl = c) =>
             /\ \A id \in DOMAIN tasks(c) :
                    IF Entry(c, id).error \/ ExpireTimePassed(id)
                    THEN ~InRegistry(c, id)'
                    ELSE /\ InRegistry(c, id)'
                         /\ Entry(c, id)' = Entry(c, id)
                         /\ taskObjects'[id] = taskObjects[id]
             /\ DOMAIN tasks(c)' \subseteq DOMAIN tasks(c)]_vars

\* A sweep left a running task in place after an expired or failed task of
\* the same controller had gone.
C16_Witness ==
    /\ lastReq.op = "sweepTasks"
    /\ \E id \in TaskIds :
          /\ taskHistory[id].ctl = lastReq.ctl
          /\ InRegistry(lastReq.ctl, id)
          /\ ~taskObjects[id].finished
    /\ \E id \in TaskIds :
          /\ taskHistory[id].ctl = lastReq.ctl
          /\ ~InRegistry(lastReq.ctl, id)
          /\ ExpireTimePassed(id)

\* C17: a POST that is answered from the request cache is never answered
\* 404 task-missing for the cached id.
C17_CachedIdIsFound ==
    lastReq.op = "post-cached" =>
        handleProgressRequest(lastReq.ctl, lastReq.id, 200).status # 404

\* The cache of controller c holds an entry for key that is not stale.
CacheEntryFresh(c, key) ==
    /\ key \in DOMAIN requestCache[c]
    /\ now - requestCache[c][key].setAt <= CACHE_MAX_AGE * 1000

\* C18: a POST without bypassCache for options whose cache entry is present
\* and not stale starts no process and makes no task, and its response
\* carries the id of the task of the earlier request.
C18_WarmPostReusesTask ==
    [][\A c \in Controllers : \A key \in CacheKeys :
          (/\ lastReq'.op \in {"post-cached", "post-run"}
           /\ lastReq'.ctl = c
           /\ lastReq'.key = key
           /\ ~lastReq'.bypassCache
           /\ CacheEntryFresh(c, key)) =>
              /\ UNCHANGED <<taskObjects, processState, taskLists,
                             requestCache>>
              /\ handleProgressRequest(c, requestCache[c][key].id, 200)'.id
                    = requestCache[c][key].id]_vars

\* A second POST was answered from the cache while the task of the first
\* was still running.
C18_Witness ==
    /\ lastReq.op = "post-cached"
    /\ ~lastReq.bypassCache
    /\ processState[lastReq.id] = "pending"
    /\ ~taskObjects[lastReq.id].finished
    /\ Cardinality(TaskIds) = 1
    /\ handleProgressRequest(lastReq.ctl, lastReq.id, 200).id = lastReq.id

\* C19: the task controller classes have different task list ids; a task
\* is in the registry of the controller whose runTask made it and of no
\* other, so that isTaskExisting, handleProgressRequest and
\* handleResultRequest of another controller do not find it; and a sweep on
\* one controller leaves the registry of every other as it was.
C19_RegistriesDisjoint ==
    /\ [](/\ \A c1 \in AllControllers : \A c2 \in AllControllers \ {c1} :
                getTaskListId(c1) # getTaskListId(c2)
          /\ \A c \in Controllers : \A id \in TaskIds :
                c # taskHistory[id].ctl =>
                    /\ ~isTaskExisting(c, id)
                    /\ handleProgressRequest(c, id, 200).status = 404
                    /\ handleResultRequest(c, id).status = 404)
    /\ [][\A c \in Controllers :
            (lastReq'.op \in {"sweepTasks", "sweepTask"}
                /\ lastReq'.ctl # c) => tasks(c)' = tasks(c)]_vars

\* A task in the registry of its controller was asked of the other
\* controller, which answered 404.
C19_Witness ==
    /\ lastReq.op = "progress"
    /\ lastReq.id \in TaskIds
    /\ taskHistory[lastReq.id].ctl # lastReq.ctl
    /\ isTaskExisting(taskHistory[lastReq.id].ctl, lastReq.id)
    /\ handleProgressRequest(lastReq.ctl, lastReq.id, 200).status = 404

\* C20: a task whose expiry time has passed is in the end removed from its
\* registry, whatever the clients do.
C20_ExpiredTaskIsRemoved ==
    \A id \in 1..MaxTasks :
        [](id \in TaskIds /\ ExpireTimePassed(id)
              => <>(\A c \in Controllers : ~isTaskExisting(c, id)))

(***************************************************************************)
(* Processors: properties                                                  *)
(***************************************************************************)

\* The rows of the log that name revision revid.
Candidates(revid) == {r \in input.rows : revid \in r.ids}

\* C21: of the deletion log rows that name a revision, all of different
\* timestamps, the one attached to the revision as deleted is the one with
\* the greatest timestamp; a revision no row names gets deleted: true.
C21_LatestLogEntryAttached ==
    output # <<>> =>
        \A revid \in input.revisions :
            /\ Candidates(revid) = {} => output[1][revid].deleted = <<>>
            /\ \A r \in Candidates(revid) :
                  (\A o \in Candidates(revid) : r.timestamp >= o.timestamp)
                      => output[1][revid].deleted = <<r>>

\* A revision named by three rows got the latest of them.
C21_Witness ==
    /\ output # <<>>
    /\ \E revid \in input.revisions :
          /\ Cardinality(Candidates(revid)) = 3
          /\ output[1][revid].deleted # <<>>
          /\ output[1][revid].deleted[1].timestamp = MaxLogTime

\* C35: a revision that some deletion log row names gets one of those rows
\* as deleted, and islikelycause exactly when it is among the three least
\* ids that row names; a revision no row names gets deleted: true and
\* islikelycause: false.
C35_LikelyCauseAmongFirstThree ==
    output # <<>> =>
        \A revid \in input.revisions :
            LET upgraded == output[1][revid]
            IN IF Candidates(revid) = {}
               THEN upgraded.deleted = <<>> /\ ~upgraded.islikelycause
               ELSE /\ upgraded.deleted # <<>>
                    /\ upgraded.deleted[1] \in Candidates(revid)
                    /\ upgraded.islikelycause <=>
                          Cardinality({id \in upgraded.deleted[1].ids :
                                          id < revid}) < 3

\* One row names four revisions: the revision of the fourth id got the row
\* and is no likely cause, a revision of a lesser id got it and is one.
C35_Witness ==
    /\ output # <<>>
    /\ \E revid \in input.revisions, other \in input.revisions :
          /\ output[1][revid].deleted # <<>>
          /\ output[1][revid].deleted = output[1][other].deleted
          /\ Cardinality(output[1][revid].deleted[1].ids) = 4
          /\ ~output[1][revid].islikelycause
          /\ output[1][other].islikelycause

\* The rows of the answer that carry a deletion log row.
LogCandidates == {i \in DOMAIN input.results : input.results[i].log_id # 0}

\* C22: of several deletion log rows joined to one archived creation, all
\* later than the archive timestamp, the entry kept as deleted is the one
\* whose timestamp is the least, in whatever order the rows are returned.
C22_ClosestDeletionKept ==
    output # <<>> =>
        \A ar_id \in DOMAIN ArchiveRows :
            LET joined == {i \in LogCandidates : input.results[i].ar_id = ar_id}
            IN \A i \in joined :
                   (\A j \in joined :
                       input.results[i].log_timestamp
                           <= input.results[j].log_timestamp)
                       => /\ output[1][ar_id].deleted # <<>>
                          /\ output[1][ar_id].deleted[1].logid
                                 = input.results[i].log_id

\* The number of occurrences of string f in the content of revision revid.
MatchCount(revid, f) ==
    Cardinality({i \in DOMAIN input.revisions[revid] :
                    input.revisions[revid][i] = f})

\* The revisions of the history that have content.
WithContent == {revid \in DOMAIN input.revisions : input.revisions[revid] # Null}

\* The match count of f in the revision with content before revid, 0 if there
\* is none.
PreviousCount(revid, f) ==
    LET before == {r \in WithContent : r < revid}
    IN IF before = {} THEN 0
       ELSE MatchCount(CHOOSE r \in before : \A o \in before : o <= r, f)

\* The number of events of the answer for revision revid (0: any revision)
\* with this filter and action.
EventCount(revid, f, action) ==
    Cardinality({i \in DOMAIN output[1] :
                    /\ output[1][i].filter = <<f>>
                    /\ output[1][i].action = action
                    /\ revid \in {0, output[1][i].revid}})

\* C23: for every page history and every filter, the add events emitted for
\* the filter less the remove events emitted for it are the match count of
\* the filter in the last revision with content.
C23_EventsSumToFinalCount ==
    output # <<>> =>
        \A f \in Range(input.filter.strings) :
            EventCount(0, f, "add") - EventCount(0, f, "remove")
                = PreviousCount(Len(input.revisions) + 1, f)

\* C24: with a set of strings as filter, every event carries the filter
\* whose count changed in its revision, add for an increase and remove for a
\* decrease, to zero too; the history "adds uw-test1, adds uw-test2, removes
\* uw-test1" gives the events uw-test1 add, uw-test2 add, uw-test1 remove.
C24_EventsCarryTheirFilter ==
    (output # <<>> /\ input.filter.isArray) =>
        /\ \A i \in DOMAIN output[1] :
              output[1][i].filter # <<>>
        /\ \A revid \in WithContent : \A f \in Range(input.filter.strings) :
              LET delta == MatchCount(revid, f) - PreviousCount(revid, f)
              IN /\ EventCount(revid, f, "add") = IF delta > 0 THEN delta ELSE 0
                 /\ EventCount(revid, f, "remove") = IF delta < 0 THEN 0 - delta ELSE 0
        /\ input.revisions = << <<"uw-test1">>, <<"uw-test1", "uw-test2">>, <<"uw-test2">> >>
              => output[1] = << [revid |-> 1, filter |-> <<"uw-test1">>, action |-> "add"],
                                [revid |-> 2, filter |-> <<"uw-test2">>, action |-> "add"],
                                [revid |-> 3, filter |-> <<"uw-test1">>, action |-> "remove"] >>

(***************************************************************************)
(* Routes: properties                                                      *)
(***************************************************************************)

\* C25: POST /v1/user/search-talk on a supported wiki answers 400
\* invalidfilter exactly when the filter is an empty array or an object that
\* does not compile as a regular expression; a non-empty array of strings, a
\* string and a compiling expression are accepted.
C25_InvalidFilterRejected ==
    (output # <<>> /\ getDbName(input.wiki) # Undefined) =>
        ((output[1].status = 400 /\ output[1].code = "invalidfilter")
            <=> \/ input.filter.type = "array" /\ input.filter.strings = <<>>
                \/ /\ input.filter.type = "object"
                   /\ ~RegExpCompiles(input.filter.source, input.filter.flags))

\* C30: the lookups that arrive while no matrix is held share one request
\* in flight: no more than one network request for the matrix is made.
C30_OneRefreshInFlight == networkRequests <= 1

\* The array of the request after the clean-up.
CleanRevisions == cleanUp(revisionsArray(input.value))

\* The wiki of the request is in the matrix and global.
SupportedWiki == ~unsupportedWiki(getDbName(input.wiki))

\* C26: on a supported wiki a GET with more than GET_LIMIT ids is answered
\* 403 method-limited, no id having been looked up in the store or handed
\* to the expander; a POST with the same ids is not answered 403.
C26_GetIsLimited ==
    (/\ input.at # "idle"
     /\ SupportedWiki
     /\ Len(CleanRevisions) > GET_LIMIT) =>
        IF input.method = "GET"
        THEN /\ input.at = "returned"
             /\ output[1].status = 403
             /\ output[1].code = "method-limited"
             /\ input.lookedUp = {}
             /\ DOMAIN input.processingRevisions = {}
        ELSE input.at = "returned" => output[1].status # 403

\* A GET with GET_LIMIT + 1 different ids has been answered.
C26_Witness ==
    /\ input.at = "returned"
    /\ input.method = "GET"
    /\ SupportedWiki
    /\ Cardinality(revisionIds(CleanRevisions)) = GET_LIMIT + 1
    /\ output[1].status = 403

\* C27: on a supported wiki a request whose revisions value is empty or
\* holds nothing but spaces is answered 422 revisions-missing.
C27_BlankIsMissing ==
    (/\ input.at = "returned"
     /\ SupportedWiki
     /\ input.value.isString
     /\ Range(input.value.chars) \subseteq {" "}) =>
        /\ output[1].status = 422
        /\ output[1].code = "revisions-missing"

\* C29: a request answered while handles of its queued ids were pending
\* (the timeout fired first) is answered 500 expander-timeout, without any
\* revision, and none of the ids it queued is in the store.
C29_TimeoutAnswersNothing ==
    (input.at = "returned" /\ pendingHandles(input) # {}) =>
        /\ output[1].status = 500
        /\ output[1].code = "expander-timeout"
        /\ DOMAIN output[1].revisions = {}
        /\ DOMAIN store \cap DOMAIN input.processingRevisions = {}

\* The timeout fired after a part of the ids had been fetched, the store
\* taking writes.
C29_Witness ==
    /\ input.at = "returned"
    /\ pendingHandles(input) # {}
    /\ pendingHandles(input) # DOMAIN input.processingRevisions
    /\ stream = "Open"
    /\ output[1].status = 500

\* C28: every endpoint that takes a wiki answers a database name that is
\* not in the site matrix, or whose site is marked nonglobal, with
\* unsupportedwiki (422 on the revisions endpoint, 400 on the endpoints of
\* the task controllers), no id having been looked up or queued and no task
\* having been made.
C28_UnsupportedWikiRejected ==
    (input.at = "returned" /\ ~SupportedWiki) =>
        /\ output[1].code = "unsupportedwiki"
        /\ IF input.fn = "getRevisions"
           THEN /\ output[1].status = 422
                /\ input.lookedUp = {}
                /\ DOMAIN input.processingRevisions = {}
           ELSE /\ output[1].status = 400
                /\ lastReq.op = "post-unsupported"

(***************************************************************************)
(* WikimediaSiteMatrix: the fields across a failed fetch, the lookups      *)
(***************************************************************************)

\* The fetch of lookup l ends in this step by throwing.
FetchFailed(l) ==
    /\ l \in DOMAIN lookups
    /\ lookups[l].at = "fetch"
    /\ lookups'[l].at = "failed"

\* C31: a fetch that fails while a matrix is held leaves the matrix and
\* both indices as they were held.
C31_FailedRefreshKeepsSnapshot ==
    [][\A l \in DOMAIN lookups :
           FetchFailed(l) /\ matrix.matrix # Undefined => matrix' = matrix]_vars

\* The site of the matrix whose dbname is dbName: <<site>>, or <<>>.
siteOf(dbName) ==
    LET sites == {site \in groupSites(SiteMatrix) \cup Range(SiteMatrix.specials) :
                      site.dbname = dbName}
    IN IF sites = {} THEN Undefined ELSE <<CHOOSE site \in sites : TRUE>>

\* C32: a lookup by database name that returns gives the site of the
\* matrix with that very dbname, for the wikis of the language groups and
\* for the specials, and undefined for a name that is not in the matrix.
C32_LookupGivesThatWiki ==
    \A l \in DOMAIN lookups :
        lookups[l].at = "done" => lookups[l].site = siteOf(lookups[l].dbName)

(***************************************************************************)
(* WikimediaSessionManager: one client per wiki                            *)
(***************************************************************************)

\* The getClient calls that made or returned a client for the wiki.
ClientsOf(wiki) ==
    {clientCalls[k].client :
        k \in {c \in DOMAIN clientCalls :
                  /\ clientCalls[c].wiki = wiki
                  /\ clientCalls[c].at \in {"init", "returned"}}}

\* C33: for a wiki no more than one client is made, whenever the callers
\* arrive, and every caller is returned that one client.
C33_OneClientPerWiki ==
    \A wiki \in DbNames : Cardinality(ClientsOf(wiki)) <= 1

(***************************************************************************)
(* stagger: one pass at a time                                             *)
(***************************************************************************)

\* A pass of the batch function is in progress: it awaits its request, or
\* wrapper is about to resume after it.
PassInProgress == pc \in {"request", "resolved"}

\* A pass starts in this step.
PassStarts == batchNo' # batchNo

\* The wrapper is called in this step: by queue, or by a timer.
WrapperCalled == calls' # calls \/ timers' < timers

\* A pass starts only when none is in progress.
OnePassAtATime == PassStarts => ~PassInProgress

\* A call of the wrapper while a pass is in progress sets willRecall and
\* starts nothing.
CallInProgressSetsFlag ==
    WrapperCalled /\ PassInProgress =>
        willRecall' /\ ~PassStarts /\ UNCHANGED <<pc, requested, forProcessing>>

\* A run asked for during a pass is owed only while that pass is in
\* progress: when the pass has ended, a timer for the further pass has taken
\* the place of the flag.
RecallScheduledAtEnd == willRecall => PassInProgress

\* C34: no more than one pass of the batch function is in progress; a run
\* asked for during a pass only sets willRecall; and when the pass ends a
\* further pass is scheduled for it.
C34_SingleFlight ==
    /\ [][OnePassAtATime /\ CallInProgressSetsFlag]_vars
    /\ []RecallScheduledAtEnd

(***************************************************************************)
(* processRevisions: revisions without content                             *)
(***************************************************************************)

RECURSIVE contentRevids(_, _)
\* The revisions with content from revid on, oldest first.
contentRevids(revisions, revid) ==
    IF revid > Len(revisions) THEN <<>>
    ELSE (IF revisions[revid] = Null THEN <<>> ELSE <<revid>>)
             \o contentRevids(revisions, revid + 1)

\* The events of the history from which the revisions without content are
\* taken out, each event under the id its revision has in the whole history.
EventsWithoutNull ==
    LET present == contentRevids(input.revisions, 1)
        events == processRevisions(
                      [i \in DOMAIN present |-> input.revisions[present[i]]],
                      input.filter)
    IN [i \in DOMAIN events |->
           [events[i] EXCEPT !.revid = present[events[i].revid]]]

\* C36: a revision without content emits no event and leaves the counts the
\* later revisions are compared with as they were: the events of the scan
\* are those of the history without these revisions.
C36_NullContentSkipped ==
    output # <<>> =>
        /\ \A i \in DOMAIN output[1] : output[1][i].revid \in WithContent
        /\ output[1] = EventsWithoutNull

\* A revision without content stands between two with content of different
\* counts, and the later one has its events.
C36_Witness ==
    /\ output # <<>>
    /\ Len(input.revisions) = 3
    /\ input.revisions[2] = Null
    /\ input.revisions[1] # Null
    /\ input.revisions[1] # <<>>
    /\ input.revisions[3] # Null
    /\ input.revisions[3] # input.revisions[1]
    /\ \E i \in DOMAIN output[1] : output[1][i].revid = 3

(***************************************************************************)
(* AsyncTaskController: a swept task stays out of the registry             *)
(***************************************************************************)

\* Task id was put in the registry of its controller by runTask and is no
\* longer there: a sweep has removed it.
Swept(id) == ~InRegistry(taskHistory[id].ctl, id)

\* C37: a task that sweepTasks or sweepTask has removed is never in the
\* registry again, whatever its process, still running, does afterwards.
C37_SweptStaysOut ==
    [][\A id \in TaskIds : Swept(id) => Swept(id)']_vars

(***************************************************************************)
(* RevisionStore: what get returns after a change of visibility            *)
(***************************************************************************)

\* The fields of revision id that the wiki has hidden since the entry was
\* written: those an event reported hidden, and those of the change the
\* stream, not being open, has just not carried.
HiddenUpstream(id) ==
    hiddenBy[id] \cup
        (IF lastOp.op = "visibility-change-unheard" /\ lastOp.key = id
         THEN {f \in {"comment", "user"} : ~lastOp.visibility[f]}
         ELSE {})

\* C38: the revision get returns from a store that is not privileged has
\* every field blank that was hidden on the wiki after the entry was
\* written, also when the stream was closed or connecting at the change.
C38_HiddenNeverReturned ==
    ~privileged =>
        \A id \in RevIds :
            LET revision == get(store, id)
            IN (revision # Undefined /\ isValidRevision(revision[1])) =>
                   \A f \in HiddenUpstream(id) : revision[1][f] = ""

(***************************************************************************)
(* UserDeletedPageFetcher.fetch: one page for each archive row             *)
(***************************************************************************)

\* The archive rows of the answer.
ArchiveIds == {input.results[i].ar_id : i \in DOMAIN input.results}

\* C39: the array fetch returns has one DeletedPage for each ar_id of the
\* answer, and no other, however many log rows are joined to an ar_id.
C39_OnePagePerArchiveRow ==
    output # <<>> =>
        /\ Len(output[2]) = Cardinality(ArchiveIds)
        /\ \A ar_id \in ArchiveIds :
              \E i \in DOMAIN output[2] :
                  output[2][i].pageid = ArchiveRows[ar_id].ar_page_id

\* Two archive rows, one of them joined to two log rows.
C39_Witness ==
    /\ output # <<>>
    /\ Cardinality(ArchiveIds) = 2
    /\ Len(input.results) = 3
    /\ Len(output[2]) = 2

(***************************************************************************)
(* The revisions endpoint: ids held by the store                           *)
(***************************************************************************)

\* getRevisions runs in this step, from the tests to the race or the
\* response.
RevisionsLookedUp == input.at \in {"idle", "returned"} /\ input' # input

\* C40: an id the store holds when the request looks it up is answered with
\* the entry of the store and is not queued on an expander; when the store
\* holds every valid id of the request, no expander is made and nothing is
\* asked of the wiki: the request returns at once.
C40_StoredIdsNotQueued ==
    [][RevisionsLookedUp =>
         /\ \A id \in input'.lookedUp \cap DOMAIN store :
               /\ id \notin DOMAIN input'.processingRevisions
               /\ input'.finalRevisions[id] = store[id]
         /\ input'.lookedUp \subseteq DOMAIN store =>
               /\ input'.at = "returned"
               /\ input'.processingRevisions = EmptyMap
      ]_vars

\* A request of valid ids, all held by the store, has returned them without
\* an expander.
C40_Witness ==
    /\ input.at = "returned"
    /\ input.lookedUp # {}
    /\ input.lookedUp \subseteq DOMAIN store
    /\ input.processingRevisions = EmptyMap
    /\ output = <<RevisionsOK(input.finalRevisions)>>
    /\ \A id \in input.lookedUp : input.finalRevisions[id] = store[id]

====
